---- MODULE Spec2Model ----
(***************************************************************************)
(* A model of the incremental JSON extraction, recovery and merge engine   *)
(* of regu-graph-explorer: the StreamingParser (extractor), the            *)
(* parseJSONWithRecovery ladder of documentService.ts and the              *)
(* EnhancedStreamingService orchestrator.                                  *)
(*                                                                         *)
(* Text is modelled character by character: a text is a sequence of        *)
(* one-character strings, so that the scanners, the regular expressions    *)
(* and JSON.parse are computed on the same characters as in the code.      *)
(***************************************************************************)
EXTENDS Integers, Sequences, FiniteSets, TLC

\* ------------------------------------------------------------------------
\* State
\* ------------------------------------------------------------------------

VARIABLES
  xp,        \* a StreamingParser: its fields
  xText,     \* the text being streamed to it
  xPending,  \* the part of xText the stream has not delivered yet
  xLog,      \* per processChunk call since the last reset: results, buffer lengths
  rText,     \* the text given to parseJSONWithRecovery
  rOutcome,  \* what the call did: NoOutcome before it
  pc,               \* where the invocation of streamDocumentParsing stands
  documentLength,   \* documentText.length
  parser,           \* this.parser
  mergedHierarchy,  \* this.mergedHierarchy
  mergedMetadata,   \* this.mergedMetadata
  rawStreamBuffer,  \* this.rawStreamBuffer
  totalChunks,      \* chunks.length in processLargeDocument
  chunkIndex,       \* i in processLargeDocument
  chunkParser,      \* parser in processChunk
  stream,           \* what the open model stream has yet to yield
  chunkCount,       \* chunkCount in processSingleDocument
  calls,            \* the callbacks called by this invocation, in order
  opened,           \* number of model streams opened by this invocation
  thrown,           \* the model client threw: number of streams opened then, else -1
  chunks,           \* chunks in processLargeDocument: what chunkDocument returned
  earlier,          \* the ids of the nodes forwarded by earlier invocations
  cLength,   \* the length of the text given to chunkDocument
  cSplit,    \* what the text splitter did in that call
  cOutcome,  \* what the call did: NoChunks before it
  inv,       \* two invocations of streamDocumentParsing on one service, overlapping
  gText,     \* the text given to extractCompleteObjects
  gScan      \* the state of its scan after the last character: NoScan before the call

xvars == <<xp, xText, xPending, xLog>>
rvars == <<rText, rOutcome>>
svars == <<pc, documentLength, parser, mergedHierarchy, mergedMetadata, rawStreamBuffer,
           totalChunks, chunkIndex, chunkParser, stream, chunkCount, calls, opened, thrown,
           chunks, earlier>>
cvars == <<cLength, cSplit, cOutcome>>
ovars == <<inv>>
gvars == <<gText, gScan>>
vars == <<xp, xText, xPending, xLog, rText, rOutcome,
          pc, documentLength, parser, mergedHierarchy, mergedMetadata, rawStreamBuffer,
          totalChunks, chunkIndex, chunkParser, stream, chunkCount, calls, opened, thrown,
          chunks, earlier, cLength, cSplit, cOutcome, inv, gText, gScan>>

\* ------------------------------------------------------------------------
\* Calls
\* ------------------------------------------------------------------------

\* The functions of the program call one another through Call, which is
\* defined after them: Call(name, <<arguments>>) is name(arguments).  The
\* call graph of the program is deep and shared (every recovery strategy
\* parses, every parse scans), and TLC builds its coverage statistics by
\* unfolding each application it meets; through one recursive operator it
\* unfolds each function once.
RECURSIVE Call(_, _)


\* ------------------------------------------------------------------------
\* Characters and text helpers
\* ------------------------------------------------------------------------

\* The double quote and the backslash.
QUOTE == "\""
BSLASH == "\\"

\* White space as matched by \s, by String.prototype.trim and by JSON.parse
\* (restricted to the white space characters that occur in the model's texts).
WhiteSpace == {" ", "\n", "\t", "\r"}

Digits == {"0", "1", "2", "3", "4", "5", "6", "7", "8", "9"}

Letters ==
  {"a", "b", "c", "d", "e", "f", "g", "h", "i", "j", "k", "l", "m", "n", "o",
   "p", "q", "r", "s", "t", "u", "v", "w", "x", "y", "z",
   "A", "B", "C", "D", "E", "F", "G", "H", "I", "J", "K", "L", "M", "N", "O",
   "P", "Q", "R", "S", "T", "U", "V", "W", "X", "Y", "Z"}

\* \w of a JavaScript regular expression.
WordChars == Letters \cup Digits \cup {"_"}

HexDigits == Digits \cup {"a", "b", "c", "d", "e", "f", "A", "B", "C", "D", "E", "F"}

Min(a, b) == IF a < b THEN a ELSE b
Max(a, b) == IF a > b THEN a ELSE b

\* s.substring(from0, to0) with 0-based, end-exclusive JavaScript indices,
\* on a 1-based TLA+ sequence.
Substring(s, from0, to0) ==
  LET a == Max(0, Min(from0, Len(s)))
      b == Max(0, Min(to0, Len(s)))
  IN SubSeq(s, Min(a, b) + 1, Max(a, b))

\* pat occurs in s starting at the 1-based position i.
MatchAt(s, i, pat) ==
  /\ i >= 1
  /\ i + Len(pat) - 1 <= Len(s)
  /\ \A k \in 1..Len(pat) : s[i + k - 1] = pat[k]

\* The first 1-based position >= i of s that is not white space (Len(s)+1
\* if there is none): what \s* consumes.
RECURSIVE SkipWs(_, _)
SkipWs(s, i) ==
  IF i <= Len(s) /\ s[i] \in WhiteSpace THEN SkipWs(s, i + 1) ELSE i

\* String.prototype.trim.
RECURSIVE TrimRight(_)
TrimRight(s) ==
  IF Len(s) > 0 /\ s[Len(s)] \in WhiteSpace
  THEN TrimRight(SubSeq(s, 1, Len(s) - 1)) ELSE s

Trim(s) == TrimRight(SubSeq(s, SkipWs(s, 1), Len(s)))

\* The least and the greatest element of a non-empty finite set of integers.
SetMin(S) == CHOOSE x \in S : \A y \in S : x <= y
SetMax(S) == CHOOSE x \in S : \A y \in S : x >= y

\* The 1-based position of the first occurrence of pat in s at or after the
\* position i; 0 when there is none.
IndexOfFrom(s, pat, i) ==
  LET hits == {k \in i..(Len(s) - Len(pat) + 1) : MatchAt(s, k, pat)}
  IN IF hits = {} THEN 0 ELSE SetMin(hits)

\* s.lastIndexOf(pat) as a 0-based JavaScript index; -1 when there is none.
LastIndexOf(s, pat) ==
  LET hits == {k \in 1..(Len(s) - Len(pat) + 1) : MatchAt(s, k, pat)}
  IN IF hits = {} THEN -1 ELSE SetMax(hits) - 1

\* The number of occurrences of the character c in s: (s.match(/c/g) || []).length.
CountChar(s, c) == Cardinality({k \in 1..Len(s) : s[k] = c})

\* n copies of the character c: c.repeat(n).
RECURSIVE Repeat(_, _)
Repeat(c, n) == IF n <= 0 THEN <<>> ELSE <<c>> \o Repeat(c, n - 1)

\* ------------------------------------------------------------------------
\* JSON values and JSON.parse
\* ------------------------------------------------------------------------

\* A JSON value is a record [t, v]: t is its type tag, v its content.
\*   "obj": v is the sequence of members <<key, value>> in source order
\*   "arr": v is the sequence of elements
\*   "str": v is the decoded text
\*   "num": v is the numeral as written
\*   "lit": v is the word true, false or null
\* UNDEF stands for JavaScript's undefined (an absent property).
JObj(members) == [t |-> "obj", v |-> members]
JArr(elems) == [t |-> "arr", v |-> elems]
JStr(chars) == [t |-> "str", v |-> chars]
JNum(chars) == [t |-> "num", v |-> chars]
JLit(chars) == [t |-> "lit", v |-> chars]
UNDEF == [t |-> "undefined", v |-> <<>>]

ParseFail == [ok |-> FALSE, v |-> UNDEF, i |-> 0]
ParseOk(val, next) == [ok |-> TRUE, v |-> val, i |-> next]

\* obj[key] of a parsed object: the last member with that key wins, an
\* absent key is undefined.
RECURSIVE GetFrom(_, _, _)
GetFrom(members, key, k) ==
  IF k < 1 THEN UNDEF
  ELSE IF members[k][1] = key THEN members[k][2]
  ELSE GetFrom(members, key, k - 1)

Get(obj, key) ==
  IF obj.t = "obj" THEN GetFrom(obj.v, key, Len(obj.v)) ELSE UNDEF

HasKey(obj, key) ==
  obj.t = "obj" /\ \E k \in 1..Len(obj.v) : obj.v[k][1] = key

\* obj with obj[key] = val: an existing key keeps its place, a new key goes
\* last (the object spread {...obj, key: val}).
SetKey(obj, key, val) ==
  IF HasKey(obj, key)
  THEN JObj([k \in 1..Len(obj.v) |->
              IF obj.v[k][1] = key THEN <<key, val>> ELSE obj.v[k]])
  ELSE JObj(Append(obj.v, <<key, val>>))

\* A JSON string literal starting at the quote s[i]: the scan from j on,
\* acc is the text decoded so far.
RECURSIVE ParseStringFrom(_, _, _)
ParseStringFrom(s, j, acc) ==
  IF j > Len(s) THEN ParseFail
  ELSE IF s[j] = QUOTE THEN ParseOk(JStr(acc), j + 1)
  ELSE IF s[j] \in {"\n", "\t", "\r"} THEN ParseFail
  ELSE IF s[j] = BSLASH THEN
    IF j + 1 > Len(s) THEN ParseFail
    ELSE IF s[j + 1] \in {QUOTE, BSLASH, "/"}
      THEN ParseStringFrom(s, j + 2, Append(acc, s[j + 1]))
    ELSE IF s[j + 1] = "n" THEN ParseStringFrom(s, j + 2, Append(acc, "\n"))
    ELSE IF s[j + 1] = "t" THEN ParseStringFrom(s, j + 2, Append(acc, "\t"))
    ELSE IF s[j + 1] = "r" THEN ParseStringFrom(s, j + 2, Append(acc, "\r"))
    ELSE IF s[j + 1] \in {"b", "f"}
      THEN ParseStringFrom(s, j + 2, acc \o <<BSLASH, s[j + 1]>>)
    ELSE IF /\ s[j + 1] = "u"
            /\ j + 5 <= Len(s)
            /\ \A k \in 2..5 : s[j + k] \in HexDigits
      THEN ParseStringFrom(s, j + 6, acc \o SubSeq(s, j, j + 5))
    ELSE ParseFail
  ELSE ParseStringFrom(s, j + 1, Append(acc, s[j]))

\* The end (exclusive) of the run of digits starting at i.
RECURSIVE SkipDigits(_, _)
SkipDigits(s, i) ==
  IF i <= Len(s) /\ s[i] \in Digits THEN SkipDigits(s, i + 1) ELSE i

\* A JSON number starting at i: -? (0 | [1-9][0-9]*) (.[0-9]+)? ([eE][+-]?[0-9]+)?
ParseNumber(s, i) ==
  LET a == IF i <= Len(s) /\ s[i] = "-" THEN i + 1 ELSE i
      b == IF a <= Len(s) /\ s[a] = "0" THEN a + 1 ELSE SkipDigits(s, a)
      c == IF b <= Len(s) /\ s[b] = "." THEN SkipDigits(s, b + 1) ELSE b
      fracOk == c = b \/ c > b + 1
      e == IF c <= Len(s) /\ s[c] \in {"e", "E"}
           THEN IF c + 1 <= Len(s) /\ s[c + 1] \in {"+", "-"} THEN c + 2 ELSE c + 1
           ELSE c
      d == IF e > c THEN SkipDigits(s, e) ELSE c
      expOk == e = c \/ d > e
  IN IF b > a /\ fracOk /\ expOk THEN ParseOk(JNum(SubSeq(s, i, d - 1)), d)
     ELSE ParseFail

RECURSIVE ParseMembers(_, _, _)
RECURSIVE ParseElements(_, _, _)

\* The members of an object after "{" or ",": i is where the next key is
\* expected, acc the members read so far.
ParseMembers(s, i, acc) ==
  LET k == SkipWs(s, i)
  IN IF k > Len(s) \/ s[k] # QUOTE THEN ParseFail
     ELSE LET key == ParseStringFrom(s, k + 1, <<>>)
          IN IF ~key.ok THEN ParseFail
             ELSE LET c == SkipWs(s, key.i)
                  IN IF c > Len(s) \/ s[c] # ":" THEN ParseFail
                     ELSE LET val == Call("ParseValue", <<s, c + 1>>)
                          IN IF ~val.ok THEN ParseFail
                             ELSE LET n == SkipWs(s, val.i)
                                      acc2 == Append(acc, <<key.v.v, val.v>>)
                                  IN IF n > Len(s) THEN ParseFail
                                     ELSE IF s[n] = "," THEN ParseMembers(s, n + 1, acc2)
                                     ELSE IF s[n] = "}" THEN ParseOk(JObj(acc2), n + 1)
                                     ELSE ParseFail

\* The elements of an array after "[" or ",": i is where the next value is
\* expected, acc the elements read so far.
ParseElements(s, i, acc) ==
  LET val == Call("ParseValue", <<s, i>>)
  IN IF ~val.ok THEN ParseFail
     ELSE LET n == SkipWs(s, val.i)
              acc2 == Append(acc, val.v)
          IN IF n > Len(s) THEN ParseFail
             ELSE IF s[n] = "," THEN ParseElements(s, n + 1, acc2)
             ELSE IF s[n] = "]" THEN ParseOk(JArr(acc2), n + 1)
             ELSE ParseFail

\* One JSON value starting at or after i (leading white space skipped).
ParseValue(s, i) ==
  LET k == SkipWs(s, i)
  IN IF k > Len(s) THEN ParseFail
     ELSE IF s[k] = "{" THEN
       LET n == SkipWs(s, k + 1)
       IN IF n <= Len(s) /\ s[n] = "}" THEN ParseOk(JObj(<<>>), n + 1)
          ELSE ParseMembers(s, k + 1, <<>>)
     ELSE IF s[k] = "[" THEN
       LET n == SkipWs(s, k + 1)
       IN IF n <= Len(s) /\ s[n] = "]" THEN ParseOk(JArr(<<>>), n + 1)
          ELSE ParseElements(s, k + 1, <<>>)
     ELSE IF s[k] = QUOTE THEN ParseStringFrom(s, k + 1, <<>>)
     ELSE IF s[k] \in Digits \cup {"-"} THEN ParseNumber(s, k)
     ELSE IF MatchAt(s, k, <<"t", "r", "u", "e">>)
       THEN ParseOk(JLit(<<"t", "r", "u", "e">>), k + 4)
     ELSE IF MatchAt(s, k, <<"f", "a", "l", "s", "e">>)
       THEN ParseOk(JLit(<<"f", "a", "l", "s", "e">>), k + 5)
     ELSE IF MatchAt(s, k, <<"n", "u", "l", "l">>)
       THEN ParseOk(JLit(<<"n", "u", "l", "l">>), k + 4)
     ELSE ParseFail

\* JSON.parse(s): ok is FALSE where JSON.parse throws a SyntaxError.
JSONParse(s) ==
  LET r == Call("ParseValue", <<s, 1>>)
  IN IF r.ok /\ SkipWs(s, r.i) > Len(s)
     THEN [ok |-> TRUE, v |-> r.v]
     ELSE [ok |-> FALSE, v |-> UNDEF]

\* ------------------------------------------------------------------------
\* JavaScript value helpers
\* ------------------------------------------------------------------------

W_undefined == <<"u", "n", "d", "e", "f", "i", "n", "e", "d">>

\* Truthiness of a value: objects and arrays are truthy, undefined, null,
\* false, the empty string and zero are not.
Truthy(x) ==
  CASE x.t \in {"obj", "arr"} -> TRUE
    [] x.t = "str" -> Len(x.v) > 0
    [] x.t = "num" -> \E k \in 1..Len(x.v) : x.v[k] \in Digits \ {"0"}
    [] x.t = "lit" -> x.v = <<"t", "r", "u", "e">>
    [] OTHER -> FALSE

\* The text a value contributes to a string concatenation (x + ' ' + y) for
\* the kinds of value a node's text takes in the model: a string, a number
\* written as JavaScript prints it, a literal, an object or an absent property.
ToText(x) ==
  CASE x.t = "undefined" -> W_undefined
    [] x.t = "obj" ->
         <<"[", "o", "b", "j", "e", "c", "t", " ", "O", "b", "j", "e", "c", "t", "]">>
    [] OTHER -> x.v

\* x === y for two values: primitives of the same type with the same value;
\* two objects or arrays parsed from text are never the same object.
StrictEquals(x, y) == x.t = y.t /\ x.t \notin {"obj", "arr"} /\ x.v = y.v

\* null and undefined: reading a property of them throws a TypeError.
IsNullish(x) == x.t = "undefined" \/ (x.t = "lit" /\ x.v = <<"n", "u", "l", "l">>)

\* [...x]: arrays and strings can be spread, anything else throws a TypeError.
Iterable(x) == x.t \in {"arr", "str"}
SpreadItems(x) ==
  IF x.t = "arr" THEN x.v ELSE [k \in 1..Len(x.v) |-> JStr(<<x.v[k]>>)]

\* ------------------------------------------------------------------------
\* StreamingParser (the incremental JSON extractor)
\* ------------------------------------------------------------------------

K_metadata == <<QUOTE, "m", "e", "t", "a", "d", "a", "t", "a", QUOTE>>
K_hierarchy == <<QUOTE, "h", "i", "e", "r", "a", "r", "c", "h", "y", QUOTE>>
W_metadata == <<"m", "e", "t", "a", "d", "a", "t", "a">>
W_hierarchy == <<"h", "i", "e", "r", "a", "r", "c", "h", "y">>
W_id == <<"i", "d">>
W_type == <<"t", "y", "p", "e">>
W_level == <<"l", "e", "v", "e", "l">>
W_text == <<"t", "e", "x", "t">>
W_title == <<"t", "i", "t", "l", "e">>
W_references == <<"r", "e", "f", "e", "r", "e", "n", "c", "e", "s">>
W_children == <<"c", "h", "i", "l", "d", "r", "e", "n">>

\* The match of  key \s* : \s* open  at position i of s: the position of the
\* character open, or 0 when the pattern does not match at i.
KeyOpenAt(s, i, key, open) ==
  IF ~MatchAt(s, i, key) THEN 0
  ELSE LET c == SkipWs(s, i + Len(key))
       IN IF c > Len(s) \/ s[c] # ":" THEN 0
          ELSE LET o == SkipWs(s, c + 1)
               IN IF o <= Len(s) /\ s[o] = open THEN o ELSE 0

\* The leftmost match of  key \s* : \s* open  in s from position i on:
\* [at |-> where the key starts, open |-> where open is], at = 0 for no match.
FirstKeyOpen(s, i, key, open) ==
  LET hits == {k \in i..Len(s) : KeyOpenAt(s, k, key, open) > 0}
  IN IF hits = {} THEN [at |-> 0, open |-> 0]
     ELSE [at |-> SetMin(hits), open |-> KeyOpenAt(s, SetMin(hits), key, open)]

\* The match of the regular expression
\*     "metadata"\s*:\s*(\{[^}]*(?:\{[^}]*\}[^}]*)*\})
\* in s.  After "{" the greedy [^}]* runs to the first "}" that follows; the
\* optional group needs a "{" there and so takes no part, and \} matches that
\* first "}".  If no "}" follows, nothing matches.  The match therefore is the
\* leftmost  "metadata" : {  through the first "}" after it:
\* [found, at (start of the match), open (start of group 1), close (its end)].
MetadataRegexMatch(s) ==
  LET m == Call("FirstKeyOpen", <<s, 1, K_metadata, "{">>)
      close == IF m.at = 0 THEN 0 ELSE IndexOfFrom(s, <<"}">>, m.open + 1)
  IN [found |-> m.at > 0 /\ close > 0, at |-> m.at, open |-> m.open, close |-> close]

\* StreamingParser.extractMetadata: the parsed metadata, or UNDEF for null.
extractMetadata(accumulatedJson) ==
  LET m == Call("MetadataRegexMatch", <<accumulatedJson>>)
  IN IF ~m.found THEN UNDEF
     ELSE LET metadataJson ==
                <<"{">> \o K_metadata \o <<":">>
                  \o SubSeq(accumulatedJson, m.open, m.close) \o <<"}">>
              parsed == Call("JSONParse", <<metadataJson>>)
          IN IF parsed.ok THEN Get(parsed.v, W_metadata) ELSE UNDEF

\* StreamingParser.isValidHierarchyNode.
isValidHierarchyNode(o) ==
  /\ Truthy(o)
  /\ Get(o, W_id).t = "str"
  /\ Get(o, W_type).t = "str"
  /\ Get(o, W_level).t = "num"
  /\ Get(o, W_references).t = "arr"
  /\ Get(o, W_children).t = "arr"

\* The state of the scan of extractCompleteObjects before its first character.
\* currentObject is kept as the position curFrom at which it was last emptied:
\* it is the text from curFrom to the character just appended.  minBrace
\* records the least value braceCount has taken, closes the position of the
\* closing brace of each object pushed (neither is a variable of the code).
ScanInit ==
  [braceCount |-> 0, curFrom |-> 1, inString |-> FALSE, escapeNext |-> FALSE,
   objectStart |-> -1, objects |-> <<>>, minBrace |-> 0, closes |-> <<>>, spans |-> <<>>]

\* A scanner that takes no character to be inside a string.
NeverInString(inString, char) == FALSE

\* if (char === quote && !escapeNext) inString = !inString
InStringAfter(inString, char) == IF char = QUOTE THEN ~inString ELSE inString

\* One iteration of the loop of extractCompleteObjects, on character i.
ScanStep(s, i, st) ==
  LET char == s[i]
  IN IF st.escapeNext THEN [st EXCEPT !.escapeNext = FALSE]
     ELSE IF char = BSLASH THEN [st EXCEPT !.escapeNext = TRUE]
     ELSE
       LET inStr == InStringAfter(st.inString, char)
           opens == ~inStr /\ char = "{"
           starts == opens /\ st.braceCount = 0
           objStart == IF starts THEN i - 1 ELSE st.objectStart
           from == IF starts THEN i ELSE st.curFrom
           bc == st.braceCount + (IF opens THEN 1 ELSE 0)
                   - (IF ~inStr /\ char = "}" THEN 1 ELSE 0)
           currentObject == SubSeq(s, from, i)
           found == bc = 0 /\ objStart >= 0 /\ Len(Trim(currentObject)) > 0
           parsed == Call("JSONParse", <<Trim(currentObject)>>)
           pushed == found /\ parsed.ok /\ isValidHierarchyNode(parsed.v)
       IN [braceCount |-> bc,
           curFrom |-> IF found THEN i + 1 ELSE from,
           inString |-> inStr,
           escapeNext |-> FALSE,
           objectStart |-> IF found THEN -1 ELSE objStart,
           objects |-> IF pushed THEN Append(st.objects, parsed.v) ELSE st.objects,
           minBrace |-> Min(st.minBrace, bc),
           closes |-> IF pushed THEN Append(st.closes, i) ELSE st.closes,
           spans |-> IF found THEN Append(st.spans, <<from, i>>) ELSE st.spans]

\* The loop of extractCompleteObjects over the characters lo..hi, in order,
\* from the state st.  The range is halved to keep the evaluation shallow;
\* the test on the left half's state always holds (minBrace is the least
\* braceCount) and only makes the left half be computed first.
RECURSIVE ScanRange(_, _, _, _)
ScanRange(s, lo, hi, st) ==
  IF lo > hi THEN st
  ELSE IF lo = hi THEN Call("ScanStep", <<s, lo, st>>)
  ELSE LET mid == (lo + hi) \div 2
           left == ScanRange(s, lo, mid, st)
       IN IF left.braceCount >= left.minBrace
          THEN ScanRange(s, mid + 1, hi, left)
          ELSE left

\* The state of the scan of extractCompleteObjects after the whole text.
ScanAll(jsonString) == ScanRange(jsonString, 1, Len(jsonString), ScanInit)

\* StreamingParser.extractCompleteObjects.
extractCompleteObjects(jsonString) == Call("ScanAll", <<jsonString>>).objects

\* The text after the first  "hierarchy" : [  of the buffer; found is FALSE
\* when the buffer has no such opening, offset is the position of the bracket.
HierarchyContent(accumulatedJson) ==
  LET m == Call("FirstKeyOpen", <<accumulatedJson, 1, K_hierarchy, "[">>)
  IN [found |-> m.at > 0,
      offset |-> m.open,
      content |-> IF m.at > 0
                  THEN SubSeq(accumulatedJson, m.open + 1, Len(accumulatedJson))
                  ELSE <<>>]

\* A slice that forgets where to start.
SliceWhole(seq, start) == seq

\* Array.prototype.slice(start) on a sequence.
SliceFrom(seq, start) == SubSeq(seq, start + 1, Len(seq))

\* StreamingParser.extractNewNodes, given the nodes parsed so far.
extractNewNodes(accumulatedJson, parsedNodes) ==
  LET h == Call("HierarchyContent", <<accumulatedJson>>)
  IN IF ~h.found THEN <<>>
     ELSE SliceFrom(extractCompleteObjects(h.content), Len(parsedNodes))

\* A completion test that looks at the first and last character only.
isParsingCompleteByBraces(accumulatedJson) ==
  LET trimmed == Trim(accumulatedJson)
  IN Len(trimmed) > 0 /\ trimmed[1] = "{" /\ trimmed[Len(trimmed)] = "}"

\* StreamingParser.isParsingComplete.
isParsingComplete(accumulatedJson) ==
  LET trimmed == Trim(accumulatedJson)
  IN /\ Len(trimmed) > 0
     /\ trimmed[1] = "{"
     /\ trimmed[Len(trimmed)] = "}"
     /\ Call("JSONParse", <<trimmed>>).ok

\* StreamingParser.resetState: the state of a fresh extractor.
ParserInitState ==
  [accumulatedJson |-> <<>>, parsedMetadata |-> UNDEF, parsedNodes |-> <<>>,
   currentChunkIndex |-> 0, isComplete |-> FALSE]

MetadataEvent(d) == [type |-> "metadata", data |-> d, isPartial |-> FALSE]
NodeEvent(d) == [type |-> "node", data |-> d, isPartial |-> FALSE]
CompleteEvent(md, nodes) ==
  [type |-> "complete",
   data |-> JObj(<< <<W_metadata, md>>, <<W_hierarchy, JArr(nodes)>> >>),
   isPartial |-> FALSE]

\* The order in which processChunk pushes its events onto results.
CompleteFirst(metadataEvents, nodeEvents, completeEvents) ==
  completeEvents \o metadataEvents \o nodeEvents
ChunkResults(metadataEvents, nodeEvents, completeEvents) ==
  metadataEvents \o nodeEvents \o completeEvents

\* this.state.accumulatedJson += chunk, and a buffer that keeps the last
\* fragment only.
KeepLastChunk(accumulatedJson, chunk) == chunk
Accumulate(accumulatedJson, chunk) == accumulatedJson \o chunk

\* isComplete set to what the last check of the buffer says.
MarkCompleteNow(was, complete) == complete

\* if (this.isParsingComplete()) this.state.isComplete = true
MarkComplete(was, complete) == was \/ complete

\* What the JSON.parse of extractMetadata does with the object it found: it
\* throws when the text is not JSON.
MetadataParseThrows(accumulatedJson) ==
  LET m == Call("MetadataRegexMatch", <<accumulatedJson>>)
  IN /\ m.found
     /\ ~Call("JSONParse", <<(<<"{">> \o K_metadata \o <<":">>
                               \o SubSeq(accumulatedJson, m.open, m.close) \o <<"}">>)>>).ok

\* The JSON.parse of isParsingComplete throws: the buffer has the outer braces
\* and is not JSON.
CompleteParseThrows(accumulatedJson) ==
  /\ isParsingCompleteByBraces(accumulatedJson)
  /\ ~Call("JSONParse", <<Trim(accumulatedJson)>>).ok

\* An extraction without the catch of extractMetadata and of
\* isParsingComplete: what they throw reaches processChunk.
PropagatesAll(threw) == threw

\* Whether an exception thrown inside extractMetadata or isParsingComplete
\* reaches processChunk: each has a catch around its JSON.parse, so none does.
Propagates(threw) == FALSE

\* The Error event that the catch of processChunk pushes.
SyntaxError == [t |-> "error", v |-> <<>>]
ErrorEvent(error) == [type |-> "error", data |-> error, isPartial |-> TRUE]

\* StreamingParser.processChunk: the state after the call and the events it
\* returns.  An exception that reaches processChunk ends the try block: the
\* events pushed before it are returned with one Error event after them.
ParserProcessChunk(st, chunk, chunkIdx) ==
  LET acc == Accumulate(st.accumulatedJson, chunk)
      tries == ~Truthy(st.parsedMetadata)
      metadata == IF tries THEN Call("extractMetadata", <<acc>>) ELSE UNDEF
      gotMeta == tries /\ Truthy(metadata)
      md == IF gotMeta THEN metadata ELSE st.parsedMetadata
      metadataEvents == IF gotMeta THEN <<MetadataEvent(metadata)>> ELSE <<>>
      newNodes == Call("extractNewNodes", <<acc, st.parsedNodes>>)
      nodes == st.parsedNodes \o newNodes
      nodeEvents == [k \in 1..Len(newNodes) |-> NodeEvent(newNodes[k])]
      complete == Call("isParsingComplete", <<acc>>)
  IN IF tries /\ Propagates(MetadataParseThrows(acc))
     THEN [state |-> [st EXCEPT !.accumulatedJson = acc, !.currentChunkIndex = chunkIdx],
           results |-> <<ErrorEvent(SyntaxError)>>]
     ELSE IF Propagates(CompleteParseThrows(acc))
     THEN [state |-> [accumulatedJson |-> acc,
                      parsedMetadata |-> md,
                      parsedNodes |-> nodes,
                      currentChunkIndex |-> chunkIdx,
                      isComplete |-> st.isComplete],
           results |-> metadataEvents \o nodeEvents \o <<ErrorEvent(SyntaxError)>>]
     ELSE [state |-> [accumulatedJson |-> acc,
                      parsedMetadata |-> md,
                      parsedNodes |-> nodes,
                      currentChunkIndex |-> chunkIdx,
                      isComplete |-> MarkComplete(st.isComplete, complete)],
           results |-> ChunkResults(metadataEvents, nodeEvents,
                         IF complete THEN <<CompleteEvent(md, nodes)>> ELSE <<>>)]

\* ------------------------------------------------------------------------
\* parseJSONWithRecovery (the recovery parser of documentService.ts)
\* ------------------------------------------------------------------------

T_Unterminated ==
  <<"U", "n", "t", "e", "r", "m", "i", "n", "a", "t", "e", "d", " ", "s", "t", "r", "i", "n", "g">>
T_FailedTitle ==
  <<"D", "o", "c", "u", "m", "e", "n", "t", " ", "P", "a", "r", "s", "i", "n", "g", " ",
    "F", "a", "i", "l", "e", "d", " ", "-", " ", "R", "e", "s", "p", "o", "n", "s", "e", " ",
    "T", "r", "u", "n", "c", "a", "t", "e", "d">>
T_Unknown == <<"U", "n", "k", "n", "o", "w", "n">>
T_FailedSource == <<"F", "a", "i", "l", "e", "d", " ", "P", "a", "r", "s", "i", "n", "g">>
T_PartialError ==
  <<"P", "a", "r", "t", "i", "a", "l", " ", "p", "a", "r", "s", "i", "n", "g", " ", "-", " ",
    "r", "e", "s", "p", "o", "n", "s", "e", " ", "w", "a", "s", " ",
    "t", "r", "u", "n", "c", "a", "t", "e", "d">>
T_FailedError ==
  <<"F", "a", "i", "l", "e", "d", " ", "t", "o", " ", "p", "a", "r", "s", "e", " ",
    "c", "o", "m", "p", "l", "e", "t", "e", " ", "J", "S", "O", "N", " ",
    "r", "e", "s", "p", "o", "n", "s", "e", " ", "-", " ", "l", "i", "k", "e", "l", "y", " ",
    "t", "r", "u", "n", "c", "a", "t", "e", "d">>
T_AllFailed ==
  <<"A", "l", "l", " ", "m", "e", "t", "h", "o", "d", "s", " ", "f", "a", "i", "l", "e", "d">>
W_jurisdiction == <<"j", "u", "r", "i", "s", "d", "i", "c", "t", "i", "o", "n">>
W_document_type == <<"d", "o", "c", "u", "m", "e", "n", "t", "_", "t", "y", "p", "e">>
W_source == <<"s", "o", "u", "r", "c", "e">>
W_parseError == <<"_", "p", "a", "r", "s", "e", "E", "r", "r", "o", "r">>
W_originalLength ==
  <<"_", "o", "r", "i", "g", "i", "n", "a", "l", "L", "e", "n", "g", "t", "h">>
W_recoveryAttempts ==
  <<"_", "r", "e", "c", "o", "v", "e", "r", "y", "A", "t", "t", "e", "m", "p", "t", "s">>
W_json == <<"j", "s", "o", "n">>
\* The backquote character (a TLA+ string cannot hold it, so the character is
\* written by its name) and the fence of a markdown code block.
BACKTICK == "BACKTICK"
FENCE == <<BACKTICK, BACKTICK, BACKTICK>>

\* The decimal numeral of a natural number.
DigitChar(d) ==
  CASE d = 0 -> "0" [] d = 1 -> "1" [] d = 2 -> "2" [] d = 3 -> "3" [] d = 4 -> "4"
    [] d = 5 -> "5" [] d = 6 -> "6" [] d = 7 -> "7" [] d = 8 -> "8" [] OTHER -> "9"

RECURSIVE Numeral(_)
Numeral(n) ==
  IF n < 10 THEN <<DigitChar(n)>> ELSE Append(Numeral(n \div 10), DigitChar(n % 10))

\* The outcome of a step of the ladder: it returns a value, it throws, or it
\* falls through to the next step.
Return(val) == [kind |-> "return", v |-> val]
Throw == [kind |-> "throw", v |-> UNDEF]
FallThrough == [kind |-> "next", v |-> UNDEF]

\* A step without its catch.
Rethrow(outcome) == outcome

\* try { step } catch (error) { logDebug(...) }: a throw is logged and the
\* ladder goes on.
Catch(outcome) == IF outcome.kind = "throw" THEN FallThrough ELSE outcome

\* JSON.parse(s) as the last statement of a try block: returns the value or throws.
ParseOrThrow(s) ==
  LET parsed == Call("JSONParse", <<s>>) IN IF parsed.ok THEN Return(parsed.v) ELSE Throw

\* text.match(/\{[\s\S]*\}/): the span from the first "{" to the last "}";
\* the empty text stands for no match (a match is never empty).
OuterSpan(text) ==
  LET first == IndexOfFrom(text, <<"{">>, 1)
      last == LastIndexOf(text, <<"}">>) + 1
  IN IF first > 0 /\ last > first THEN SubSeq(text, first, last) ELSE <<>>

\* Step 1: direct parse of the outer span.
RecoveryStep1(text) ==
  LET jsonMatch == Call("OuterSpan", <<text>>)
  IN IF Len(jsonMatch) > 0 THEN Call("ParseOrThrow", <<jsonMatch>>) ELSE FallThrough

\* The match of  FENCE(?:json)?\s*(\{[\s\S]*?\})\s*FENCE  starting at position i:
\* [open, close] of group 1, close = 0 when there is no match at i.  The lazy
\* [\s\S]*? stops at the first "}" that white space and a fence follow.
FenceMatchAt(s, i) ==
  IF ~MatchAt(s, i, FENCE) THEN [open |-> 0, close |-> 0]
  ELSE LET j == IF MatchAt(s, i + 3, W_json) THEN i + 7 ELSE i + 3
           o == SkipWs(s, j)
           ends == {p \in (o + 1)..Len(s) :
                      s[p] = "}" /\ MatchAt(s, SkipWs(s, p + 1), FENCE)}
       IN IF o <= Len(s) /\ s[o] = "{" /\ ends # {}
          THEN [open |-> o, close |-> SetMin(ends)]
          ELSE [open |-> 0, close |-> 0]

\* Step 2: the interior of the first fenced code block.
RecoveryStep2(text) ==
  LET starts == {i \in 1..Len(text) : Call("FenceMatchAt", <<text, i>>).close > 0}
  IN IF starts = {} THEN FallThrough
     ELSE LET m == Call("FenceMatchAt", <<text, SetMin(starts)>>)
          IN Call("ParseOrThrow", <<SubSeq(text, m.open, m.close)>>)

\* The position of the closing character of a match of  ,\s*close  at i; 0
\* when the pattern does not match at i.
TrailingCommaAt(s, i, close) ==
  IF i > Len(s) \/ s[i] # "," THEN 0
  ELSE LET c == SkipWs(s, i + 1)
       IN IF c <= Len(s) /\ s[c] = close THEN c ELSE 0

\* s.replace(/,\s*close/g, close), applied from position from on.
RemoveTrailingCommas(s, from, close) ==
  LET hits == {i \in from..Len(s) : TrailingCommaAt(s, i, close) > 0}
  IN IF hits = {} THEN SubSeq(s, from, Len(s))
     ELSE LET i == SetMin(hits)
              c == TrailingCommaAt(s, i, close)
          IN SubSeq(s, from, i - 1) \o <<close>> \o Call("RemoveTrailingCommas", <<s, c + 1, close>>)

\* The end (exclusive) of the run of \w characters starting at i.
RECURSIVE SkipWord(_, _)
SkipWord(s, i) ==
  IF i <= Len(s) /\ s[i] \in WordChars THEN SkipWord(s, i + 1) ELSE i

\* The match of  ([{,]\s*)(\w+):  at i: [word, colon] are the positions of the
\* first character of the word and of the colon; colon = 0 for no match.
BareKeyAt(s, i) ==
  IF i > Len(s) \/ s[i] \notin {"{", ","} THEN [word |-> 0, colon |-> 0]
  ELSE LET w == SkipWs(s, i + 1)
           e == SkipWord(s, w)
       IN IF e > w /\ e <= Len(s) /\ s[e] = ":"
          THEN [word |-> w, colon |-> e] ELSE [word |-> 0, colon |-> 0]

\* s.replace(/([{,]\s*)(\w+):/g, ...), which puts the word between double
\* quotes, applied from position from on.
QuoteBareKeys(s, from) ==
  LET hits == {i \in from..Len(s) : BareKeyAt(s, i).colon > 0}
  IN IF hits = {} THEN SubSeq(s, from, Len(s))
     ELSE LET m == BareKeyAt(s, SetMin(hits))
          IN SubSeq(s, from, m.word - 1) \o <<QUOTE>>
               \o SubSeq(s, m.word, m.colon - 1) \o <<QUOTE, ":">>
               \o Call("QuoteBareKeys", <<s, m.colon + 1>>)

\* The match of  :\s*'([^']*)'  at i: [open, close] are the positions of the
\* two single quotes; close = 0 for no match.
SingleQuotedAt(s, i) ==
  IF i > Len(s) \/ s[i] # ":" THEN [open |-> 0, close |-> 0]
  ELSE LET o == SkipWs(s, i + 1)
           c == IF o <= Len(s) /\ s[o] = "'" THEN IndexOfFrom(s, <<"'">>, o + 1) ELSE 0
       IN IF c > 0 THEN [open |-> o, close |-> c] ELSE [open |-> 0, close |-> 0]

\* s.replace(/:\s*'([^']*)'/g, ': "$1"'), applied from position from on.
DoubleQuoteValues(s, from) ==
  LET hits == {i \in from..Len(s) : SingleQuotedAt(s, i).close > 0}
  IN IF hits = {} THEN SubSeq(s, from, Len(s))
     ELSE LET i == SetMin(hits)
              m == SingleQuotedAt(s, i)
          IN SubSeq(s, from, i - 1) \o <<":", " ", QUOTE>>
               \o SubSeq(s, m.open + 1, m.close - 1) \o <<QUOTE>>
               \o Call("DoubleQuoteValues", <<s, m.close + 1>>)

\* The last replace of step 3: a double quote that only white space follows
\* up to the end of the text is removed together with that white space.
RemoveTrailingQuote(s) ==
  LET t == TrimRight(s)
  IN IF Len(t) > 0 /\ t[Len(t)] = QUOTE THEN SubSeq(t, 1, Len(t) - 1) ELSE s

\* The closing of what the text leaves open: a double quote if their number
\* is odd, then one "]" per unmatched "[" and one "}" per unmatched "{".
CloseOpenStructures(s) ==
  LET openBraces == CountChar(s, "{")
      closeBraces == CountChar(s, "}")
      openBrackets == CountChar(s, "[")
      closeBrackets == CountChar(s, "]")
      openQuotes == CountChar(s, QUOTE)
  IN s \o (IF openQuotes % 2 # 0 THEN <<QUOTE>> ELSE <<>>)
       \o Repeat("]", Max(0, openBrackets - closeBrackets))
       \o Repeat("}", Max(0, openBraces - closeBraces))

\* Step 3: syntax patching of the outer span.
RecoveryStep3(text) ==
  LET span == Call("OuterSpan", <<text>>)
      lastCompleteQuote == LastIndexOf(span, <<QUOTE, ",">>)
      cut == IF lastCompleteQuote > 0 /\ IndexOfFrom(span, T_Unterminated, 1) > 0
             THEN Substring(span, 0, lastCompleteQuote + 1) ELSE span
      a == Call("RemoveTrailingCommas", <<cut, 1, "]">>)
      b == Call("RemoveTrailingCommas", <<a, 1, "}">>)
      c == Call("QuoteBareKeys", <<b, 1>>)
      d == Call("DoubleQuoteValues", <<c, 1>>)
      e == RemoveTrailingQuote(d)
  IN Call("ParseOrThrow", <<Call("CloseOpenStructures", <<e>>)>>)

\* The length fractions of step 4, in percent, in the order they are tried.
TruncationPercents == <<95, 90, 80, 70, 60, 50, 40, 30>>

\* Math.floor(length * percent / 100) as the code computes it in double
\* precision, for lengths below 330: the product is exact except that
\* 0.7 * 90, 0.7 * 170 and 0.7 * 180 fall just below 63, 119 and 126.
FloorFraction(length, percent) ==
  IF percent = 70 /\ length \in {90, 170, 180}
  THEN (length * percent) \div 100 - 1
  ELSE (length * percent) \div 100

\* One iteration of the loop of step 4: the outer span cut to percent of its
\* length, snapped back to a field boundary if one lies in its last fifth,
\* closed and parsed.
TruncationAttempt(fullJson, percent) ==
  LET chunkSize == FloorFraction(Len(fullJson), percent)
      truncated == Substring(fullJson, 0, chunkSize)
      lastCompleteField ==
        Max(LastIndexOf(truncated, <<QUOTE, ",">>),
            Max(LastIndexOf(truncated, <<"}">>), LastIndexOf(truncated, <<"]">>)))
      snapped == IF 10 * lastCompleteField > 8 * chunkSize
                 THEN Substring(truncated, 0, lastCompleteField + 1) ELSE truncated
  IN Call("ParseOrThrow", <<Call("CloseOpenStructures", <<snapped>>)>>)

\* The loop of step 4 from the k-th fraction on: a failed attempt continues
\* with the next fraction, the first success is returned.
RECURSIVE TruncationLoop(_, _)
TruncationLoop(fullJson, k) ==
  IF k > Len(TruncationPercents) THEN FallThrough
  ELSE LET attempt == Catch(Call("TruncationAttempt", <<fullJson, TruncationPercents[k]>>))
       IN IF attempt.kind = "return" THEN attempt ELSE TruncationLoop(fullJson, k + 1)

\* Step 4: progressive truncation.
RecoveryStep4(text) ==
  LET fullJson == Call("OuterSpan", <<text>>)
  IN IF Len(fullJson) > 0 THEN TruncationLoop(fullJson, 1) ELSE FallThrough

\* Step 5: the metadata region and an empty hierarchy.  The regular expression
\* "metadata"\s*:\s*\{[^}]*\} matches as in MetadataRegexMatch; the text
\* parsed is "{" + match.substring(12) + "}".
RecoveryStep5(text) ==
  LET m == Call("MetadataRegexMatch", <<text>>)
      hierarchyStart == Call("FirstKeyOpen", <<text, 1, K_hierarchy, "[">>)
  IN IF m.found /\ hierarchyStart.at > 0
     THEN LET whole == SubSeq(text, m.at, m.close)
              inner == <<"{">> \o Substring(whole, 12, Len(whole)) \o <<"}">>
              parsed == Call("JSONParse", <<inner>>)
          IN IF parsed.ok
             THEN Return(JObj(<< <<W_metadata, parsed.v>>,
                                 <<W_hierarchy, JArr(<<>>)>>,
                                 <<W_parseError, JStr(T_PartialError)>>,
                                 <<W_originalLength, JNum(Numeral(Len(text)))>> >>))
             ELSE Throw
     ELSE FallThrough

\* Step 6: the placeholder returned when every step failed.
RecoveryStep6(text) ==
  Return(JObj(<< <<W_metadata,
                   JObj(<< <<W_title, JStr(T_FailedTitle)>>,
                           <<W_jurisdiction, JStr(T_Unknown)>>,
                           <<W_document_type, JStr(T_Unknown)>>,
                           <<W_source, JStr(T_FailedSource)>> >>)>>,
                 <<W_hierarchy, JArr(<<>>)>>,
                 <<W_parseError, JStr(T_FailedError)>>,
                 <<W_originalLength, JNum(Numeral(Len(text)))>>,
                 <<W_recoveryAttempts, JStr(T_AllFailed)>> >>))

\* The ladder with the metadata skeleton tried before the truncation.
RecoveryStepSkeletonFirst(text, k) ==
  CASE k = 1 -> Catch(Call("RecoveryStep1", <<text>>))
    [] k = 2 -> Catch(Call("RecoveryStep2", <<text>>))
    [] k = 3 -> Catch(Call("RecoveryStep3", <<text>>))
    [] k = 4 -> Catch(Call("RecoveryStep5", <<text>>))
    [] k = 5 -> Call("RecoveryStep4", <<text>>)
    [] OTHER -> Call("RecoveryStep6", <<text>>)

\* The outcome of the k-th step with the try/catch the code puts around it
\* (step 4 catches inside its loop, step 6 has nothing to catch).
RecoveryStep(text, k) ==
  CASE k = 1 -> Catch(Call("RecoveryStep1", <<text>>))
    [] k = 2 -> Catch(Call("RecoveryStep2", <<text>>))
    [] k = 3 -> Catch(Call("RecoveryStep3", <<text>>))
    [] k = 4 -> Call("RecoveryStep4", <<text>>)
    [] k = 5 -> Catch(Call("RecoveryStep5", <<text>>))
    [] OTHER -> Call("RecoveryStep6", <<text>>)

\* The ladder from step k on: [kind, v, step], step being the step that
\* ended it.
RECURSIVE RecoveryFrom(_, _)
RecoveryFrom(text, k) ==
  LET outcome == Call("RecoveryStep", <<text, k>>)
  IN IF outcome.kind = "next" THEN RecoveryFrom(text, k + 1)
     ELSE [kind |-> outcome.kind, v |-> outcome.v, step |-> k]

\* parseJSONWithRecovery(text).
parseJSONWithRecovery(text) == RecoveryFrom(text, 1)

\* ------------------------------------------------------------------------
\* EnhancedStreamingService: merging
\* ------------------------------------------------------------------------

\* The result of a merge: the merged value, or a TypeError thrown on the way.
MergeOk(val) == [ok |-> TRUE, v |-> val]
MergeThrows == [ok |-> FALSE, v |-> UNDEF]

\* list.findIndex(e => e.id === node.id): at is the index from 1 (0 for -1).
\* The callback runs on the elements in order up to the first match, and it
\* throws on an element that is null or undefined, or, if it runs at all,
\* when node is.
FindIndex(list, node) ==
  LET nullish == {k \in 1..Len(list) : IsNullish(list[k])}
      matches == {k \in 1..Len(list) :
                    /\ ~IsNullish(list[k])
                    /\ ~IsNullish(node)
                    /\ StrictEquals(Get(list[k], W_id), Get(node, W_id))}
      at == IF matches = {} THEN 0 ELSE SetMin(matches)
  IN [throws |-> \/ Len(list) > 0 /\ IsNullish(node)
                 \/ \E k \in nullish : at = 0 \/ k < at,
      at |-> at]

\* Texts joined without the separating space.
MergeTextNoSpace(existingText, incomingText) == ToText(existingText) \o ToText(incomingText)

\* existing.text + ' ' + node.text
MergeText(existingText, incomingText) ==
  ToText(existingText) \o <<" ">> \o ToText(incomingText)

RECURSIVE MergeInto(_, _, _)

\* The object { ...existing, text, references, children } that replaces a
\* node when a node with the same id comes in.
MergeNodes(existing, node) ==
  LET er == Get(existing, W_references)
      nr == Get(node, W_references)
  IN IF ~Iterable(er) \/ ~Iterable(nr) THEN MergeThrows
     ELSE LET ch == Call("mergeChildren", <<Get(existing, W_children), Get(node, W_children)>>)
          IN IF ~ch.ok THEN MergeThrows
             ELSE MergeOk(
                    SetKey(SetKey(SetKey(existing,
                      W_text, JStr(MergeText(Get(existing, W_text), Get(node, W_text)))),
                      W_references, JArr(SpreadItems(er) \o SpreadItems(nr))),
                      W_children, ch.v))

\* The forEach of mergeChildren from the k-th incoming child on.
MergeInto(merged, incoming, k) ==
  IF k > Len(incoming) THEN MergeOk(JArr(merged))
  ELSE LET incomingChild == incoming[k]
           existingIndex == Call("FindIndex", <<merged, incomingChild>>)
       IN IF existingIndex.throws THEN MergeThrows
          ELSE IF existingIndex.at = 0
            THEN MergeInto(Append(merged, incomingChild), incoming, k + 1)
          ELSE LET m == Call("MergeNodes", <<merged[existingIndex.at], incomingChild>>)
               IN IF ~m.ok THEN MergeThrows
                  ELSE MergeInto([merged EXCEPT ![existingIndex.at] = m.v], incoming, k + 1)

\* EnhancedStreamingService.mergeChildren.
mergeChildren(existing, incoming) ==
  IF ~Iterable(existing) \/ incoming.t # "arr" THEN MergeThrows
  ELSE MergeInto(SpreadItems(existing), incoming.v, 1)

\* A merge that pushes every node, whether its id is in the list or not.
pushHierarchyNode(hierarchy, node) == MergeOk(Append(hierarchy, node))

\* A merge that combines the node with the first node of the list, whatever
\* its id.
mergeIntoFirst(hierarchy, node) ==
  IF Len(hierarchy) > 0
  THEN LET m == Call("MergeNodes", <<hierarchy[1], node>>)
       IN IF m.ok THEN MergeOk([hierarchy EXCEPT ![1] = m.v]) ELSE MergeThrows
  ELSE MergeOk(Append(hierarchy, node))

\* EnhancedStreamingService.mergeHierarchyNode: the merged hierarchy after it.
mergeHierarchyNode(hierarchy, node) ==
  LET existingIndex == Call("FindIndex", <<hierarchy, node>>)
  IN IF existingIndex.throws THEN MergeThrows
     ELSE IF existingIndex.at > 0
       THEN LET m == Call("MergeNodes", <<hierarchy[existingIndex.at], node>>)
            IN IF m.ok THEN MergeOk([hierarchy EXCEPT ![existingIndex.at] = m.v])
               ELSE MergeThrows
     ELSE MergeOk(Append(hierarchy, node))

\* A metadata proposal that always replaces the metadata.
AdoptLatest(current, proposed) == proposed

\* if (!this.mergedMetadata) this.mergedMetadata = parsedChunk.data
AdoptMetadata(current, proposed) == IF ~Truthy(current) THEN proposed ELSE current

JNull == JLit(<<"n", "u", "l", "l">>)

\* ------------------------------------------------------------------------
\* Input texts
\* ------------------------------------------------------------------------

Q(w) == <<QUOTE>> \o w \o <<QUOTE>>

RECURSIVE Join(_, _)
Join(parts, sep) ==
  IF Len(parts) = 0 THEN <<>>
  ELSE IF Len(parts) = 1 THEN parts[1]
  ELSE parts[1] \o sep \o Join(Tail(parts), sep)

\* The text of a node object with the given id, text and children (texts).
NodeText(id, text, children) ==
  <<"{">> \o Q(W_id) \o <<":">> \o Q(id) \o <<",">>
    \o Q(W_type) \o <<":">> \o Q(<<"s">>) \o <<",">>
    \o Q(W_level) \o <<":", "1", ",">>
    \o Q(W_text) \o <<":">> \o Q(text) \o <<",">>
    \o Q(W_references) \o <<":", "[", "]", ",">>
    \o Q(W_children) \o <<":", "[">> \o Join(children, <<",">>) \o <<"]", "}">>

\* The text of a metadata member and of a hierarchy member.
MetadataText(inner) == Q(W_metadata) \o <<":", "{">> \o inner \o <<"}">>
HierarchyText(nodes) == Q(W_hierarchy) \o <<":", "[">> \o Join(nodes, <<",">>) \o <<"]">>
TitleText(t) == Q(W_title) \o <<":">> \o Q(t)

NodeA == NodeText(<<"a">>, <<"x">>, <<>>)
NodeA2 == NodeText(<<"a">>, <<"z">>, <<>>)
NodeB == NodeText(<<"b">>, <<"y">>, <<>>)
NodeC == NodeText(<<"c">>, <<>>, <<>>)
NodeAC == NodeText(<<"a">>, <<"x">>, <<NodeC>>)
\* A node whose text holds braces, a bracket and an escaped quote.
NodeE == NodeText(<<"e">>, <<"{", BSLASH, QUOTE, "}", "]", BSLASH, BSLASH>>, <<>>)
\* An object of the hierarchy that lacks the fields of a node.
NotANode == <<"{">> \o Q(W_id) \o <<":">> \o Q(<<"n">>) \o <<"}">>

\* A document as the model sends it: metadata, then the nodes.
DocPlain ==
  <<"{">> \o MetadataText(TitleText(<<"T">>)) \o <<",">>
    \o HierarchyText(<<NodeAC, NodeB>>) \o <<"}">>
\* The same members in the other order.
DocHierarchyFirst ==
  <<"{">> \o HierarchyText(<<NodeB>>) \o <<",">>
    \o MetadataText(TitleText(<<"T">>)) \o <<"}">>
\* Two top-level nodes with the same id.
DocSameId == <<"{">> \o HierarchyText(<<NodeA, NodeA2>>) \o <<"}">>
\* Metadata whose title holds a closing brace.
DocBraceInTitle ==
  <<"{">> \o MetadataText(TitleText(<<"a", "}", "b">>)) \o <<",">>
    \o HierarchyText(<<>>) \o <<"}">>
\* Metadata with a nested object, and a node.
DocNestedMetadata ==
  <<"{">> \o MetadataText(Q(<<"k">>) \o <<":", "{", "}", ",">> \o TitleText(<<"T">>))
    \o <<",">> \o HierarchyText(<<NodeA>>) \o <<"}">>
\* A closing brace with no opening one before the first node.
DocStrayBrace == <<"{">> \o HierarchyText(<<<<"}">>, NodeAC>>) \o <<"}">>
\* A node with escapes and braces in its text, an object that is no node, and
\* white space around the document.
DocEscapes ==
  <<" ", "{">> \o HierarchyText(<<NodeE, NotANode>>) \o <<"}", "\n">>
\* A complete document followed by more text.
DocTrailing ==
  <<"{">> \o MetadataText(TitleText(<<"T">>)) \o <<",">>
    \o HierarchyText(<<>>) \o <<"}", " ", "x">>
\* An object with neither member, and a document that never closes.
DocOther == <<"{">> \o Q(<<"k">>) \o <<":", "1", "}">>
DocUnclosed ==
  <<"{">> \o MetadataText(TitleText(<<"T">>)) \o <<",">>
    \o Q(W_hierarchy) \o <<":", "[">> \o NodeC \o <<",", "{">> \o Q(W_id)

ExtractorTexts ==
  {DocPlain, DocHierarchyFirst, DocSameId, DocBraceInTitle, DocNestedMetadata,
   DocStrayBrace, DocEscapes, DocTrailing, DocOther, DocUnclosed}

\* Prose around a valid document.
RecProse ==
  <<"H", "e", "r", "e", ":", " ", "{", "\"", "m", "e", "t", "a", "d", "a", "t", "a", "\"", ":",
    "{", "\"", "t", "i", "t", "l", "e", "\"", ":", "\"", "T", "\"", "}", ",", "\"", "h", "i",
    "e", "r", "a", "r", "c", "h", "y", "\"", ":", "[", "]", "}", " ", "o", "k">>
\* A fenced object inside text whose outer span does not parse.
RecFenced ==
  <<"{", " ", BACKTICK, BACKTICK, BACKTICK, "j", "s", "o", "n", "\n", "{", "\"", "k", "\"",
    ":", "1", "}", "\n", BACKTICK, BACKTICK, BACKTICK, " ", "}">>
\* Trailing commas.
RecTrailingComma ==
  <<"{", "\"", "m", "e", "t", "a", "d", "a", "t", "a", "\"", ":", "{", "\"", "t", "i", "t",
    "l", "e", "\"", ":", "\"", "T", "\"", ",", "}", ",", "\"", "h", "i", "e", "r", "a", "r",
    "c", "h", "y", "\"", ":", "[", "]", ",", "}">>
\* Keys without quotes and a value between single quotes.
RecBareKeys ==
  <<"{", "m", "e", "t", "a", "d", "a", "t", "a", ":", "{", "t", "i", "t", "l", "e", ":", "'",
    "T", "'", "}", ",", "h", "i", "e", "r", "a", "r", "c", "h", "y", ":", "[", "]", "}">>
\* A document cut in the middle of its second node.
RecTruncated ==
  <<"{", "\"", "m", "e", "t", "a", "d", "a", "t", "a", "\"", ":", "{", "\"", "t", "i", "t",
    "l", "e", "\"", ":", "\"", "T", "\"", "}", ",", "\"", "h", "i", "e", "r", "a", "r", "c",
    "h", "y", "\"", ":", "[", "{", "\"", "i", "d", "\"", ":", "\"", "b", "\"", ",", "\"", "t",
    "y", "p", "e", "\"", ":", "\"", "s", "\"", ",", "\"", "l", "e", "v", "e", "l", "\"", ":",
    "1", ",", "\"", "t", "e", "x", "t", "\"", ":", "\"", "y", "\"", ",", "\"", "r", "e", "f",
    "e", "r", "e", "n", "c", "e", "s", "\"", ":", "[", "]", ",", "\"", "c", "h", "i", "l", "d",
    "r", "e", "n", "\"", ":", "[", "]", "}", ",", "{", "\"", "i", "d", "\"", ":", "\"", "c",
    "\"", ",", "\"", "t", "y", "}">>
\* A truncated, malformed buffer.
RecScenario3 ==
  <<"{", "\"", "m", "e", "t", "a", "d", "a", "t", "a", "\"", ":", "{", "\"", "t", "i", "t",
    "l", "e", "\"", ":", "\"", "T", "\"", "}", ",", " ", "\"", "h", "i", "e", "r", "a", "r",
    "c", "h", "y", "\"", ":", " ", "[", "{", "\"", "i", "d", "\"", ":", "\"", "a", "\"", ",",
    "\"", "t", "y", "p", "e", "\"", ":", "\"", "x", "\"", ",", "\"", "l", "e", "v", "e", "l",
    "\"", ":", "1", ",", "\"", "r", "e", "f", "e", "r", "e", "n", "c", "e", "s", "\"", ":",
    "[", "]", ",", "\"", "c", "h", "i", "l", "d", "r", "e", "n", "\"", ":", "[", "}">>
\* Text that is no JSON, whose metadata region holds a nested object.
RecNestedMetadata ==
  <<"{", "@", "\"", "m", "e", "t", "a", "d", "a", "t", "a", "\"", ":", "{", "\"", "a", "\"",
    ":", "{", "\"", "b", "\"", ":", "1", "}", " ", "\"", "h", "i", "e", "r", "a", "r", "c",
    "h", "y", "\"", ":", "[">>
\* Text that is no JSON, with a flat metadata region.
RecFlatMetadata ==
  <<"{", "@", "\"", "m", "e", "t", "a", "d", "a", "t", "a", "\"", ":", "{", "\"", "t", "i",
    "t", "l", "e", "\"", ":", "\"", "T", "\"", "}", ",", " ", "\"", "h", "i", "e", "r", "a",
    "r", "c", "h", "y", "\"", ":", "[", "]", "}">>
\* An array around an object.
RecArray ==
  <<"[", "{", "\"", "a", "\"", ":", "1", "}", "]">>
\* Text without braces.
RecNoBraces ==
  <<"n", "o", " ", "j", "s", "o", "n">>

\* A document with a member that is no JSON after the hierarchy.
RecGarbageTail ==
  <<"{">> \o MetadataText(Q(<<"a">>) \o <<":", "{">> \o Q(<<"b">>) \o <<":", "1", "}">>)
    \o <<",">> \o HierarchyText(<<>>)
    \o <<",", "@", "@", "@", "@", "@", "@", "@", "@", "@", "@", "}">>

RecoveryTexts ==
  {RecProse, RecFenced, RecTrailingComma, RecBareKeys, RecTruncated, RecScenario3,
   RecNestedMetadata, RecFlatMetadata, RecArray, RecNoBraces, DocPlain, DocOther,
   RecGarbageTail}

\* Every text of at most MaxTextLen characters over a small alphabet.
MaxTextLen == 3
RecoveryAlphabet == {"{", "}", "[", "]", ",", ":", QUOTE, "a", "1", " "}
ShortTexts == UNION {[1..n -> RecoveryAlphabet] : n \in 0..MaxTextLen}

\* The text of a node object with references.
NodeTextWith(id, text, references, children) ==
  <<"{">> \o Q(W_id) \o <<":">> \o Q(id) \o <<",">>
    \o Q(W_type) \o <<":">> \o Q(<<"s">>) \o <<",">>
    \o Q(W_level) \o <<":", "1", ",">>
    \o Q(W_text) \o <<":">> \o Q(text) \o <<",">>
    \o Q(W_references) \o <<":", "[">> \o Join(references, <<",">>) \o <<"]", ",">>
    \o Q(W_children) \o <<":", "[">> \o Join(children, <<",">>) \o <<"]", "}">>

\* What the model answers for a chunk: node p with children c and d.
NodeP1 ==
  NodeTextWith(<<"p">>, <<"A">>, <<Q(<<"r", "1">>)>>,
    <<NodeTextWith(<<"c">>, <<"u">>, <<Q(<<"s", "1">>)>>, <<>>),
      NodeTextWith(<<"d">>, <<"w">>, <<>>, <<>>)>>)
\* What it answers for another chunk: node p again, with children c and e.
NodeP2 ==
  NodeTextWith(<<"p">>, <<"B">>, <<Q(<<"r", "2">>), Q(<<"r", "1">>)>>,
    <<NodeTextWith(<<"c">>, <<"v">>, <<Q(<<"s", "2">>)>>, <<>>),
      NodeTextWith(<<"e">>, <<"z">>, <<>>, <<>>)>>)
\* Node p with a child c that has no references and no children.
NodeP3 ==
  NodeTextWith(<<"p">>, <<"C">>, <<>>,
    <<<<"{">> \o Q(W_id) \o <<":">> \o Q(<<"c">>) \o <<"}">>>>)

\* A fragment of a model stream: its content, and whether it is a string.
Fragment(text) == [content |-> text, isString |-> TRUE]
NonTextFragment == [content |-> <<>>, isString |-> FALSE]

StreamFirst ==
  <<Fragment(<<"{">> \o MetadataText(TitleText(<<"F", "i", "r", "s", "t">>)) \o <<",">>),
    Fragment(Q(W_hierarchy) \o <<":", "[">> \o NodeP1),
    Fragment(<<"]", "}">>)>>
StreamSecond ==
  <<Fragment(<<"{">> \o MetadataText(TitleText(<<"S", "e", "c", "o", "n", "d">>)) \o <<",">>
      \o HierarchyText(<<NodeP2, NodeB>>) \o <<"}">>)>>
StreamNoMetadata ==
  <<Fragment(<<"{">> \o HierarchyText(<<NodeB>>)), Fragment(<<"}">>)>>
StreamBadChild ==
  <<Fragment(<<"{">> \o HierarchyText(<<NodeP3>>) \o <<"}">>)>>
StreamProse ==
  <<NonTextFragment, Fragment(<<"n", "o", " ", "j", "s", "o", "n">>), Fragment(<<>>)>>
StreamEmpty == <<>>
\* The model's answer is cut off inside the metadata.
StreamTruncated ==
  <<Fragment(<<"{">> \o Q(W_metadata) \o <<":", "{">> \o Q(W_title) \o <<":">>
      \o Q(<<"C", "u", "t">>) \o <<",">> \o Q(<<"x">>) \o <<":", "{", "}">>)>>

ModelStreams ==
  {StreamFirst, StreamSecond, StreamNoMetadata, StreamBadChild, StreamProse, StreamEmpty,
   StreamTruncated}

\* A long answer that comes in fragments of one space, so that the progress
\* of processSingleDocument reaches its ceiling.
MaxFragments == 39
StreamLong == [k \in 1..MaxFragments |-> Fragment(<<" ">>)]

\* The streams the model may answer a whole document with.
SingleStreams == ModelStreams \cup {StreamLong}

NoOutcome == [kind |-> "none", v |-> UNDEF, step |-> 0]

\* The parts of the state a specification does not use.
XIdle == xp = ParserInitState /\ xText = <<>> /\ xPending = <<>> /\ xLog = <<>>
RIdle == rText = <<>> /\ rOutcome = NoOutcome
SIdle ==
  /\ pc = "idle"
  /\ documentLength = 0
  /\ parser = ParserInitState
  /\ mergedHierarchy = <<>>
  /\ mergedMetadata = JNull
  /\ rawStreamBuffer = <<>>
  /\ totalChunks = 0
  /\ chunkIndex = 0
  /\ chunkParser = ParserInitState
  /\ stream = <<>>
  /\ chunkCount = 0
  /\ calls = <<>>
  /\ opened = 0
  /\ thrown = -1
  /\ chunks = <<>>
  /\ earlier = {}
NoChunks == [ok |-> FALSE, chunks |-> <<>>, error |-> UNDEF]
NoScan == [braceCount |-> 0, objects |-> <<>>, minBrace |-> 0, spans |-> <<>>, scanned |-> FALSE]
GIdle == gText = <<>> /\ gScan = NoScan
NoSplit == [throws |-> FALSE, pieces |-> <<>>, cause |-> [isError |-> FALSE, message |-> <<>>]]
CIdle == cLength = 0 /\ cSplit = NoSplit /\ cOutcome = NoChunks
Invocations == {1, 2}
IdleInvocation ==
  [pc |-> "idle", whole |-> <<>>, stream |-> <<>>, calls |-> <<>>, chunkCount |-> 0]
OIdle == inv = [i \in Invocations |-> IdleInvocation]

\* ------------------------------------------------------------------------
\* The extractor fed a text in fragments
\* ------------------------------------------------------------------------

MaxCalls == 3
MaxLaterFragment == 1

\* The sizes the next fragment may have: the first fragment is any prefix of
\* the text, a later one is short or the whole rest.
FragmentSizes ==
  IF Len(xLog) = 0 THEN 0..Len(xPending)
  ELSE (0..Min(MaxLaterFragment, Len(xPending))) \cup {Len(xPending)}

XInit ==
  /\ xp = ParserInitState
  /\ xText \in ExtractorTexts
  /\ xPending = xText
  /\ xLog = <<>>
  /\ RIdle
  /\ SIdle
  /\ CIdle
  /\ OIdle
  /\ GIdle

\* parser.processChunk(chunk, chunkIndex) with the next n characters.
XProcessChunk ==
  /\ Len(xLog) < MaxCalls
  /\ \E n \in FragmentSizes :
       LET chunk == SubSeq(xPending, 1, n)
           r == Call("ParserProcessChunk", <<xp, chunk, Len(xLog)>>)
           delivered == Len(xText) - Len(xPending)
       IN /\ xp' = r.state
          /\ xPending' = SubSeq(xPending, n + 1, Len(xPending))
          /\ xLog' = Append(xLog, [results |-> r.results,
                                   before |-> delivered,
                                   after |-> delivered + n])
  /\ UNCHANGED <<xText, rvars, svars, cvars, ovars, gvars>>

\* parser.resetState(), before another text is streamed.
XResetState ==
  /\ Len(xLog) > 0
  /\ xp' = ParserInitState
  /\ xText' \in ExtractorTexts
  /\ xPending' = xText'
  /\ xLog' = <<>>
  /\ UNCHANGED <<rvars, svars, cvars, ovars, gvars>>

XNext == XProcessChunk \/ XResetState

SpecExtractor == XInit /\ [][XNext]_vars

\* ------------------------------------------------------------------------
\* The scanner by itself
\* ------------------------------------------------------------------------

\* A node whose text holds a closing brace before an opening one.
NodeF == NodeText(<<"f">>, <<"}", "{">>, <<>>)

\* The objects a hierarchy is made of: a plain node, a node with a child, a
\* node with braces, an escaped quote and an escaped backslash in a string, a
\* node with unbalanced braces in a string, an object that is no node.
ScanElements == {NodeA, NodeAC, NodeE, NodeF, NotANode}

\* The hierarchy regions given to extractCompleteObjects: up to MaxElements
\* objects separated by commas, and the bracket that closes the array.
MaxElements == 2
ElementLists == UNION {[1..n -> ScanElements] : n \in 0..MaxElements}
Region(elements) == Join(elements, <<",">>) \o <<"]">>

\* A region in which a closing brace stands outside every object: before a
\* node with a child, and as the closing brace of the document between two
\* nodes.
StrayRegions ==
  {<<"}", ",">> \o NodeAC \o <<"]", "}">>,
   NodeB \o <<"]", "}">> \o NodeAC}

\* Every text of at most MaxScanLen characters over the characters the
\* scanner tells apart.
MaxScanLen == 3
ScanAlphabet == {"{", "}", QUOTE, BSLASH, "a"}
ScanShortTexts == UNION {[1..n -> ScanAlphabet] : n \in 0..MaxScanLen}

ScanTexts == {Region(elements) : elements \in ElementLists} \cup StrayRegions \cup ScanShortTexts

\* What is kept of the scan of a text.
Scanned(jsonString) ==
  LET sc == Call("ScanAll", <<jsonString>>)
  IN [braceCount |-> sc.braceCount, objects |-> sc.objects, minBrace |-> sc.minBrace,
      spans |-> sc.spans, scanned |-> TRUE]

GInit ==
  /\ gText \in ScanTexts
  /\ gScan = NoScan
  /\ XIdle
  /\ RIdle
  /\ SIdle
  /\ CIdle
  /\ OIdle

\* this.extractCompleteObjects(gText).
GExtract ==
  /\ ~gScan.scanned
  /\ gScan' = Scanned(gText)
  /\ UNCHANGED <<gText, xvars, rvars, svars, cvars, ovars>>

\* The next call, with another text.
GAgain ==
  /\ gScan.scanned
  /\ gText' \in ScanTexts
  /\ gScan' = NoScan
  /\ UNCHANGED <<xvars, rvars, svars, cvars, ovars>>

GNext == GExtract \/ GAgain

SpecScan == GInit /\ [][GNext]_vars

\* ------------------------------------------------------------------------
\* Properties of the extractor
\* ------------------------------------------------------------------------

\* The text delivered since the last reset.
Delivered == SubSeq(xText, 1, Len(xText) - Len(xPending))

RECURSIVE ResultsOf(_)
ResultsOf(log) == IF Len(log) = 0 THEN <<>> ELSE log[1].results \o ResultsOf(Tail(log))

IsMetadata(e) == e.type = "metadata"
IsNode(e) == e.type = "node"
IsComplete(e) == e.type = "complete"
IsMetadataOrNode(e) == e.type \in {"metadata", "node"}
Has(results, type) == \E i \in 1..Len(results) : results[i].type = type
DataOf(events) == [i \in 1..Len(events) |-> events[i].data]
IdsOf(nodes) == [i \in 1..Len(nodes) |-> Get(nodes[i], W_id)]
Distinct(seq) == \A i, j \in 1..Len(seq) : i # j => seq[i] # seq[j]
Rank(e) == CASE e.type = "metadata" -> 0 [] e.type = "node" -> 1 [] OTHER -> 2

\* The scan of the hierarchy content of a text, and the positions in the text
\* of the closing braces of the objects it pushes.
ScanOf(text) == Call("ScanAll", <<Call("HierarchyContent", <<text>>).content>>)
ClosesIn(text) ==
  LET sc == ScanOf(text)
  IN [k \in 1..Len(sc.closes) |-> Call("HierarchyContent", <<text>>).offset + sc.closes[k]]

\* The events of one processChunk call, on a fresh extractor, with a text.
OneCall(text) == Call("ParserProcessChunk", <<ParserInitState, text, 0>>).results

\* The number of Node events of the calls before call c.
NodesBefore(c) == Len(SelectSeq(ResultsOf(SubSeq(xLog, 1, c - 1)), IsNode))

\* C2 as stated: between two resets the Metadata event is emitted at most
\* once and no two Node events carry the same id.
C2_AsStated ==
  LET events == ResultsOf(xLog)
  IN /\ Len(SelectSeq(events, IsMetadata)) <= 1
     /\ Distinct(IdsOf(DataOf(SelectSeq(events, IsNode))))

\* C2: between two resets the Metadata event is emitted at most once, and the
\* Node events emitted so far are exactly the node objects the scan finds in
\* the buffer, each once and in order; so no id is emitted twice when the
\* node objects of the buffer have distinct ids.
C2_EachObjectOnce ==
  LET events == ResultsOf(xLog)
      nodes == DataOf(SelectSeq(events, IsNode))
      objects == ScanOf(Delivered).objects
  IN /\ Len(SelectSeq(events, IsMetadata)) <= 1
     /\ nodes = objects
     /\ nodes = xp.parsedNodes
     /\ Distinct(IdsOf(objects)) => Distinct(IdsOf(nodes))

\* Node events in two different calls, and a Metadata event.
C2_Witness ==
  /\ Len(xLog) = 3
  /\ Has(xLog[1].results, "metadata") /\ Has(xLog[1].results, "node")
  /\ Has(xLog[3].results, "node")
  /\ Distinct(IdsOf(xp.parsedNodes))

\* C3: when a call emits Complete, the buffer after that call, trimmed,
\* begins with an opening brace, ends with a closing brace and parses as JSON.
C3_CompleteParses ==
  \A c \in 1..Len(xLog) :
    Has(xLog[c].results, "complete") =>
      LET trimmed == Trim(SubSeq(xText, 1, xLog[c].after))
      IN /\ Len(trimmed) >= 2
         /\ trimmed[1] = "{"
         /\ trimmed[Len(trimmed)] = "}"
         /\ Call("JSONParse", <<trimmed>>).ok
         /\ Call("JSONParse", <<trimmed>>).v.t = "obj"

\* A Complete event for a buffer with white space around the object.
C3_Witness ==
  /\ Len(xLog) >= 1
  /\ Has(xLog[Len(xLog)].results, "complete")
  /\ Trim(Delivered) # Delivered
  /\ xp.isComplete

\* C7: in the results of one call the Metadata event comes first, the Node
\* events follow in the order in which their objects close in the buffer, and
\* a single Complete event comes last.
C7_OrderWithinCall ==
  \A c \in 1..Len(xLog) :
    LET r == xLog[c].results
        nodes == DataOf(SelectSeq(r, IsNode))
        text == SubSeq(xText, 1, xLog[c].after)
        closes == ClosesIn(text)
        first == NodesBefore(c)
    IN /\ \A i, j \in 1..Len(r) : i < j => Rank(r[i]) <= Rank(r[j])
       /\ Len(SelectSeq(r, IsMetadata)) <= 1
       /\ Len(SelectSeq(r, IsComplete)) <= 1
       /\ nodes = SubSeq(ScanOf(text).objects, first + 1, first + Len(nodes))
       /\ \A i, j \in 1..Len(closes) : i < j => closes[i] < closes[j]

\* One call that returns a Metadata event, two Node events and Complete.
C7_Witness ==
  \E c \in 1..Len(xLog) :
    /\ Has(xLog[c].results, "metadata")
    /\ Len(SelectSeq(xLog[c].results, IsNode)) >= 2
    /\ Has(xLog[c].results, "complete")

\* Each Node event is returned by the call whose fragment holds the closing
\* brace of its object.
NodeByClosingCall ==
  LET closes == ClosesIn(Delivered)
  IN \A c \in 1..Len(xLog) :
       LET n == Len(SelectSeq(xLog[c].results, IsNode))
           first == NodesBefore(c)
       IN \A k \in (first + 1)..(first + n) :
            /\ k <= Len(closes)
            /\ xLog[c].before < closes[k]
            /\ closes[k] <= xLog[c].after

\* C8 as stated: the Metadata and Node events of two calls with the two parts
\* of a text, in order, are the Metadata and Node events of one call with the
\* text, and a Node event comes from the call that supplies its closing brace.
C8_AsStated ==
  Len(xLog) = 2 =>
    /\ SelectSeq(ResultsOf(xLog), IsMetadataOrNode)
         = SelectSeq(OneCall(Delivered), IsMetadataOrNode)
    /\ NodeByClosingCall

\* C8: however a text is split into fragments, the calls return the Node
\* events of one call with the text, in the same order, and the same Metadata
\* event; the two sequences of events are equal exactly when no Node event is
\* returned before the Metadata event; and a Node event comes from the call
\* that supplies its closing brace.
C8_SplitEquivalence ==
  Len(xLog) >= 1 =>
    LET split == SelectSeq(ResultsOf(xLog), IsMetadataOrNode)
        whole == SelectSeq(OneCall(Delivered), IsMetadataOrNode)
        nodeFirst == \E i, j \in 1..Len(split) :
                       i < j /\ split[i].type = "node" /\ split[j].type = "metadata"
    IN /\ SelectSeq(split, IsNode) = SelectSeq(whole, IsNode)
       /\ SelectSeq(split, IsMetadata) = SelectSeq(whole, IsMetadata)
       /\ (split = whole) <=> ~nodeFirst
       /\ NodeByClosingCall

\* Two calls, the first returns a Node event and the second the Metadata one.
C8_Witness ==
  /\ Len(xLog) = 2
  /\ xLog[1].before < xLog[1].after /\ xLog[2].before < xLog[2].after
  /\ Has(xLog[1].results, "node") /\ ~Has(xLog[1].results, "metadata")
  /\ Has(xLog[2].results, "metadata")

\* ------------------------------------------------------------------------
\* The recovery parser given a text
\* ------------------------------------------------------------------------

RInit ==
  /\ rText \in RecoveryTexts \cup ShortTexts
  /\ rOutcome = NoOutcome
  /\ XIdle
  /\ SIdle
  /\ CIdle
  /\ OIdle
  /\ GIdle

\* parseJSONWithRecovery(rText).
RParse ==
  /\ rOutcome = NoOutcome
  /\ rOutcome' = Call("parseJSONWithRecovery", <<rText>>)
  /\ UNCHANGED <<rText, xvars, svars, cvars, ovars, gvars>>

\* The next call, with another text.
RAgain ==
  /\ rOutcome # NoOutcome
  /\ rText' \in RecoveryTexts \cup ShortTexts
  /\ rOutcome' = NoOutcome
  /\ UNCHANGED <<xvars, svars, cvars, ovars, gvars>>

RNext == RParse \/ RAgain

SpecRecovery == RInit /\ [][RNext]_vars

\* C4: parseJSONWithRecovery returns a value and does not throw, whatever the
\* text: empty, without braces, truncated, malformed or valid.
C4_NeverThrows ==
  rOutcome # NoOutcome =>
    /\ rOutcome.kind = "return"
    /\ rOutcome.step \in 1..6
    /\ rOutcome.v # UNDEF

\* A text whose outer span fails to parse in steps 1, 3 and 4, so that the
\* placeholder of step 6 is returned.
C4_Witness ==
  /\ rOutcome.kind = "return"
  /\ rOutcome.step = 6
  /\ Len(Call("OuterSpan", <<rText>>)) > 0
  /\ Call("RecoveryStep1", <<rText>>).kind = "throw"
  /\ Call("RecoveryStep3", <<rText>>).kind = "throw"

\* C5 as stated: whatever the text and whichever step returns, the value
\* returned is an object with a metadata object and a hierarchy sequence.
C5_AsStated ==
  rOutcome # NoOutcome =>
    /\ rOutcome.v.t = "obj"
    /\ Get(rOutcome.v, W_metadata).t = "obj"
    /\ Get(rOutcome.v, W_hierarchy).t = "arr"

\* ------------------------------------------------------------------------
\* DocumentChunker
\* ------------------------------------------------------------------------

ChunkSize == 8000
ChunkOverlap == 1000

T_FailedToChunk ==
  <<"F", "a", "i", "l", "e", "d", " ", "t", "o", " ", "c", "h", "u", "n", "k", " ",
    "d", "o", "c", "u", "m", "e", "n", "t", ":", " ">>
T_UnknownError == <<"U", "n", "k", "n", "o", "w", "n", " ", "e", "r", "r", "o", "r">>
T_StreamingFailed ==
  <<"S", "t", "r", "e", "a", "m", "i", "n", "g", " ", "f", "a", "i", "l", "e", "d">>

\* A value that is thrown: an Error with a message, or something else.
ErrorOf(message) == [isError |-> TRUE, message |-> message]
NotAnError == [isError |-> FALSE, message |-> <<>>]

\* What this.textSplitter.splitText does: it returns pieces of the text (the
\* model keeps their lengths), or it throws.
SplitReturns(pieces) == [throws |-> FALSE, pieces |-> pieces, cause |-> NotAnError]
SplitThrows(cause) == [throws |-> TRUE, pieces |-> <<>>, cause |-> cause]

\* An error that keeps nothing of its cause.
ChunkingErrorWithoutCause(cause) == ErrorOf(T_FailedToChunk)

\* new Error(Failed to chunk document: message of the cause, or Unknown error)
ChunkingError(cause) ==
  ErrorOf(T_FailedToChunk \o (IF cause.isError THEN cause.message ELSE T_UnknownError))

ChunkOk(documentChunks) == [ok |-> TRUE, chunks |-> documentChunks, error |-> UNDEF]
ChunkFails(error) == [ok |-> FALSE, chunks |-> <<>>, error |-> error]

\* startChar of the k-th piece: currentPosition, which starts at 0 and after
\* each piece is its endChar less the overlap.
RECURSIVE StartChar(_, _)
StartChar(pieces, k) ==
  IF k = 1 THEN 0 ELSE StartChar(pieces, k - 1) + pieces[k - 1] - ChunkOverlap

\* Chunk objects numbered from 1.
ChunkObjectsFromOne(pieces) ==
  [k \in 1..Len(pieces) |->
     [contentLength |-> pieces[k],
      index |-> k,
      startChar |-> StartChar(pieces, k),
      endChar |-> StartChar(pieces, k) + pieces[k],
      totalChunks |-> Len(pieces)]]

\* documentChunks: chunks.map((chunk, index) => ...).
ChunkObjects(pieces) ==
  [k \in 1..Len(pieces) |->
     [contentLength |-> pieces[k],
      index |-> k - 1,
      startChar |-> StartChar(pieces, k),
      endChar |-> StartChar(pieces, k) + pieces[k],
      totalChunks |-> Len(pieces)]]

\* DocumentChunker.chunkDocument for a text of the given length, split being
\* what the splitter does if it is called.
chunkDocument(length, split) ==
  IF length <= ChunkSize
  THEN ChunkOk(<<[contentLength |-> length, index |-> 0, startChar |-> 0,
                  endChar |-> length, totalChunks |-> 1]>>)
  ELSE IF split.throws THEN ChunkFails(ChunkingError(split.cause))
  ELSE ChunkOk(ChunkObjects(split.pieces))

\* The lengths of the texts given to chunkDocument: around the chunk size,
\* and longer.
ChunkerLengths == {0, 1, ChunkSize - 1, ChunkSize, ChunkSize + 1, 3 * ChunkSize}

\* What the text splitter does: it returns up to MaxPieces pieces, each of
\* one of these lengths, or it throws.
MaxPieces == 3
PieceLengths == {1, ChunkOverlap, ChunkSize}
SplitterReturns == UNION {[1..n -> PieceLengths] : n \in 0..MaxPieces}
SplitterOutcomes ==
  {SplitReturns(pieces) : pieces \in SplitterReturns}
    \cup {SplitThrows(cause) : cause \in {ErrorOf(<<"b", "o", "o", "m">>), NotAnError}}

CInit ==
  /\ cLength \in ChunkerLengths
  /\ cSplit \in SplitterOutcomes
  /\ cOutcome = NoChunks
  /\ XIdle
  /\ RIdle
  /\ SIdle
  /\ OIdle
  /\ GIdle

\* chunker.chunkDocument(documentText).
CChunkDocument ==
  /\ cOutcome = NoChunks
  /\ cOutcome' = chunkDocument(cLength, cSplit)
  /\ UNCHANGED <<cLength, cSplit, xvars, rvars, svars, ovars, gvars>>

\* The next call, with another text.
CAgain ==
  /\ cOutcome # NoChunks
  /\ cLength' \in ChunkerLengths
  /\ cSplit' \in SplitterOutcomes
  /\ cOutcome' = NoChunks
  /\ UNCHANGED <<xvars, rvars, svars, ovars, gvars>>

CNext == CChunkDocument \/ CAgain

SpecChunker == CInit /\ [][CNext]_vars

\* C19: the chunks chunkDocument returns carry the indices 0, 1, ..., n - 1
\* in this order and each of them has totalChunks = n, the number of chunks
\* returned (one per piece of the splitter when the text is split); a text
\* shorter than the chunk size gives exactly one chunk, from character 0 to
\* the length of the text, with totalChunks 1.
C19_ChunksNumbered ==
  cOutcome.ok =>
    LET n == Len(cOutcome.chunks)
    IN /\ \A k \in 1..n :
            /\ cOutcome.chunks[k].index = k - 1
            /\ cOutcome.chunks[k].totalChunks = n
       /\ cLength > ChunkSize => n = Len(cSplit.pieces)
       /\ cLength < ChunkSize =>
            /\ n = 1
            /\ cOutcome.chunks[1].startChar = 0
            /\ cOutcome.chunks[1].endChar = cLength
            /\ cOutcome.chunks[1].contentLength = cLength
            /\ cOutcome.chunks[1].totalChunks = 1

\* A text of three times the chunk size that the splitter cut into three
\* pieces of the chunk size.
C19_Witness ==
  /\ cOutcome.ok
  /\ cLength = 3 * ChunkSize
  /\ Len(cOutcome.chunks) = MaxPieces
  /\ \A k \in 1..MaxPieces : cOutcome.chunks[k].contentLength = ChunkSize

\* ------------------------------------------------------------------------
\* EnhancedStreamingService: streamDocumentParsing
\* ------------------------------------------------------------------------

MaxChunks == 3
MaxTokens == 30000
CharsPerToken == 4

DocumentLengths == {0, MaxTokens * CharsPerToken, MaxTokens * CharsPerToken + 1}

\* DocumentChunker.estimateTokenCount and exceedsTokenLimit, on the length of
\* the text.
estimateTokenCount(length) == (length + CharsPerToken - 1) \div CharsPerToken
\* A limit that the estimate may not reach.
reachesTokenLimit(length) == estimateTokenCount(length) >= MaxTokens
exceedsTokenLimit(length) == estimateTokenCount(length) > MaxTokens

W_chunkIndex == <<"c", "h", "u", "n", "k", "I", "n", "d", "e", "x">>
W_totalChunks == <<"t", "o", "t", "a", "l", "C", "h", "u", "n", "k", "s">>
T_ProcessedDocument == <<"P", "r", "o", "c", "e", "s", "s", "e", "d", " ", "D", "o", "c", "u", "m", "e", "n", "t">>
T_Document == <<"D", "o", "c", "u", "m", "e", "n", "t">>
T_StreamingParse == <<"S", "t", "r", "e", "a", "m", "i", "n", "g", " ", "P", "a", "r", "s", "e">>

\* The callbacks, as entries of calls.  The progress is the fraction num/den.
OnProgress(n, d) ==
  [cb |-> "onProgress", type |-> "", data |-> UNDEF, chunkIndex |-> -1, totalChunks |-> -1,
   num |-> n, den |-> d]
OnChunk(type, data, index, total) ==
  [cb |-> "onChunk", type |-> type, data |-> data, chunkIndex |-> index,
   totalChunks |-> total, num |-> 0, den |-> 1]
OnComplete(finalData) ==
  [cb |-> "onComplete", type |-> "", data |-> finalData, chunkIndex |-> -1,
   totalChunks |-> -1, num |-> 0, den |-> 1]
OnError(error) ==
  [cb |-> "onError", type |-> error, data |-> UNDEF, chunkIndex |-> -1,
   totalChunks |-> -1, num |-> 0, den |-> 1]

\* An exception that is reported and after which the invocation goes on.
CaughtInLoop(at) == IF at \in {"chunkStream", "chunkIterate"} THEN "chunkIterate" ELSE "done"

\* Where the invocation stands after an exception thrown at pc = at: the only
\* catch is that of streamDocumentParsing, which calls onError and returns.
Caught(at) == "done"

\* The forEach of processSingleDocument over the events of one fragment:
\* st is [metadata, hierarchy, calls, threw].
ForwardParsedChunks(parsedChunks, st) ==
  IF Len(parsedChunks) = 0 THEN st
  ELSE LET parsedChunk == parsedChunks[1]
           isMetadata == parsedChunk.type = "metadata"
           adopt == isMetadata /\ ~Truthy(st.metadata)
       IN Call("ForwardParsedChunks", <<Tail(parsedChunks),
            [metadata |-> IF isMetadata
                          THEN AdoptMetadata(st.metadata, parsedChunk.data)
                          ELSE st.metadata,
             hierarchy |-> IF ~adopt /\ parsedChunk.type = "node"
                           THEN Append(st.hierarchy, parsedChunk.data) ELSE st.hierarchy,
             calls |-> Append(st.calls, OnChunk(parsedChunk.type, parsedChunk.data, -1, -1)),
             threw |-> FALSE]>>)

\* The forEach of processChunk over the events of one fragment; a TypeError of
\* mergeHierarchyNode ends it.
MergeParsedChunks(parsedChunks, st, index, total) ==
  IF Len(parsedChunks) = 0 THEN st
  ELSE LET parsedChunk == parsedChunks[1]
           isMetadata == parsedChunk.type = "metadata"
           adopt == isMetadata /\ ~Truthy(st.metadata)
           merges == ~adopt /\ parsedChunk.type = "node"
           m == IF merges THEN Call("mergeHierarchyNode", <<st.hierarchy, parsedChunk.data>>)
                ELSE MergeOk(st.hierarchy)
       IN IF ~m.ok THEN [st EXCEPT !.threw = TRUE]
          ELSE Call("MergeParsedChunks", <<Tail(parsedChunks),
                 [metadata |-> IF isMetadata
                               THEN AdoptMetadata(st.metadata, parsedChunk.data)
                               ELSE st.metadata,
                  hierarchy |-> m.v,
                  calls |-> Append(st.calls,
                              OnChunk(parsedChunk.type, parsedChunk.data, index, total)),
                  threw |-> FALSE],
                 index, total>>)

\* The callbacks of finalizeMergedResults without onComplete.
FinalizeWithoutComplete(finalData) ==
  <<OnProgress(95, 1), OnProgress(98, 1), OnProgress(100, 1)>>

\* The callbacks of finalizeMergedResults (saveJsonToFile catches what it throws).
FinalizeCalls(finalData) ==
  <<OnProgress(95, 1), OnProgress(98, 1), OnComplete(finalData), OnProgress(100, 1)>>

PlaceholderMetadata ==
  JObj(<< <<W_title, JStr(T_ProcessedDocument)>>,
          <<W_jurisdiction, JStr(T_Unknown)>>,
          <<W_document_type, JStr(T_Document)>>,
          <<W_source, JStr(T_StreamingParse)>> >>)

\* finalData of finalizeMergedResults.
FinalData(metadata, hierarchy) ==
  JObj(<< <<W_metadata, IF Truthy(metadata) THEN metadata ELSE PlaceholderMetadata>>,
          <<W_hierarchy, JArr(hierarchy)>> >>)

Call(op, args) ==
  CASE op = "ParseValue" -> ParseValue(args[1], args[2])
    [] op = "JSONParse" -> JSONParse(args[1])
    [] op = "FirstKeyOpen" -> FirstKeyOpen(args[1], args[2], args[3], args[4])
    [] op = "MetadataRegexMatch" -> MetadataRegexMatch(args[1])
    [] op = "extractMetadata" -> extractMetadata(args[1])
    [] op = "ScanStep" -> ScanStep(args[1], args[2], args[3])
    [] op = "ScanAll" -> ScanAll(args[1])
    [] op = "HierarchyContent" -> HierarchyContent(args[1])
    [] op = "extractNewNodes" -> extractNewNodes(args[1], args[2])
    [] op = "isParsingComplete" -> isParsingComplete(args[1])
    [] op = "ParserProcessChunk" -> ParserProcessChunk(args[1], args[2], args[3])
    [] op = "ParseOrThrow" -> ParseOrThrow(args[1])
    [] op = "OuterSpan" -> OuterSpan(args[1])
    [] op = "RecoveryStep1" -> RecoveryStep1(args[1])
    [] op = "FenceMatchAt" -> FenceMatchAt(args[1], args[2])
    [] op = "RecoveryStep2" -> RecoveryStep2(args[1])
    [] op = "RemoveTrailingCommas" -> RemoveTrailingCommas(args[1], args[2], args[3])
    [] op = "QuoteBareKeys" -> QuoteBareKeys(args[1], args[2])
    [] op = "DoubleQuoteValues" -> DoubleQuoteValues(args[1], args[2])
    [] op = "CloseOpenStructures" -> CloseOpenStructures(args[1])
    [] op = "RecoveryStep3" -> RecoveryStep3(args[1])
    [] op = "TruncationAttempt" -> TruncationAttempt(args[1], args[2])
    [] op = "RecoveryStep4" -> RecoveryStep4(args[1])
    [] op = "RecoveryStep5" -> RecoveryStep5(args[1])
    [] op = "RecoveryStep6" -> RecoveryStep6(args[1])
    [] op = "RecoveryStep" -> RecoveryStep(args[1], args[2])
    [] op = "parseJSONWithRecovery" -> parseJSONWithRecovery(args[1])
    [] op = "FindIndex" -> FindIndex(args[1], args[2])
    [] op = "MergeNodes" -> MergeNodes(args[1], args[2])
    [] op = "mergeChildren" -> mergeChildren(args[1], args[2])
    [] op = "mergeHierarchyNode" -> mergeHierarchyNode(args[1], args[2])
    [] op = "ForwardParsedChunks" -> ForwardParsedChunks(args[1], args[2])
    [] op = "MergeParsedChunks" -> MergeParsedChunks(args[1], args[2], args[3], args[4])
    [] op = "FinalData" -> FinalData(args[1], args[2])

finalizeMergedResults == FinalizeCalls(Call("FinalData", <<mergedMetadata, mergedHierarchy>>))

\* A progress without the ceiling.
UnclampedProgress(count) == 15 + count * 2

\* Math.min(90, 15 + (chunkCount * 2))
SingleProgress(count) == Min(90, 15 + count * 2)

\* baseProgress of chunk k of n: 15 + (k / n) * 75.
BaseProgress(k, n) == OnProgress(15 * n + 75 * k, n)

\* The hierarchy of the invocation before, kept.
StaleHierarchy(hierarchy) == hierarchy

\* this.mergedHierarchy = []
FreshHierarchy(hierarchy) == <<>>

\* The ids of the nodes that the callbacks cs forwarded.
ForwardedIds(cs) ==
  {Get(cs[k].data, W_id) : k \in {j \in 1..Len(cs) : cs[j].cb = "onChunk" /\ cs[j].type = "node"}}

\* What the splitter does with a document that is split: up to MaxChunks
\* pieces of the chunk size, or an exception.
SplitterCauses ==
  {ErrorOf(<<"b", "o", "o", "m">>), ErrorOf(<<>>), NotAnError}

\* The message of what the splitter threw, if it threw an Error.
CauseMessage(cause) == IF cause.isError THEN cause.message ELSE T_UnknownError
ServiceSplits ==
  {SplitReturns([k \in 1..n |-> ChunkSize]) : n \in 0..MaxChunks}
    \cup {SplitThrows(cause) : cause \in SplitterCauses}

\* A loop that is left while the stream still has fragments.
EndedEarly(s) == TRUE

\* The for await over a stream is left when the stream has yielded all its
\* fragments.
StreamEnded(s) == Len(s) = 0

\* error instanceof Error ? error : new Error(Streaming failed)
TerminalError(error) == IF error.isError THEN error ELSE ErrorOf(T_StreamingFailed)

SInit ==
  /\ SIdle
  /\ XIdle
  /\ RIdle
  /\ CIdle
  /\ OIdle
  /\ GIdle

\* streamDocumentParsing(documentText, callbacks) up to its first await: the
\* reset, onProgress(5), the choice of the mode, and the callbacks with which
\* processLargeDocument or processSingleDocument begins.
StreamDocumentParsing ==
  /\ pc \in {"idle", "done"}
  /\ \E length \in DocumentLengths :
       /\ documentLength' = length
       /\ IF exceedsTokenLimit(length)
          THEN /\ calls' = <<OnProgress(5, 1), OnProgress(10, 1)>>
               /\ pc' = "chunkDocument"
          ELSE /\ calls' = <<OnProgress(5, 1), OnProgress(10, 1), OnProgress(15, 1)>>
               /\ pc' = "singleStream"
  /\ parser' = ParserInitState
  /\ mergedHierarchy' = FreshHierarchy(mergedHierarchy)
  /\ mergedMetadata' = JNull
  /\ rawStreamBuffer' = <<>>
  /\ totalChunks' = 0
  /\ chunkIndex' = 0
  /\ chunkParser' = ParserInitState
  /\ stream' = <<>>
  /\ chunkCount' = 0
  /\ opened' = 0
  /\ thrown' = -1
  /\ chunks' = <<>>
  /\ earlier' = earlier \cup ForwardedIds(calls)
  /\ cLength' = 0
  /\ cSplit' = NoSplit
  /\ cOutcome' = NoChunks
  /\ UNCHANGED <<xvars, rvars, ovars, gvars>>

\* chunkDocument returns n chunks (none if the splitter finds only white
\* space): the loop starts with chunk 0, or is skipped and
\* finalizeMergedResults follows.
ChunkDocumentReturns ==
  /\ pc = "chunkDocument"
  /\ \E split \in ServiceSplits :
       LET r == chunkDocument(documentLength, split)
           n == Len(r.chunks)
       IN /\ r.ok
          /\ cLength' = documentLength
          /\ cSplit' = split
          /\ cOutcome' = r
          /\ chunks' = r.chunks
          /\ totalChunks' = n
          /\ IF n > 0
             THEN /\ calls' = calls \o <<OnProgress(15, 1), BaseProgress(0, n)>>
                  /\ pc' = "chunkStream"
             ELSE /\ calls' = calls \o <<OnProgress(15, 1)>> \o finalizeMergedResults
                  /\ pc' = "done"
  /\ chunkIndex' = 0
  /\ UNCHANGED <<documentLength, parser, mergedHierarchy, mergedMetadata, rawStreamBuffer,
                 chunkParser, stream, chunkCount, opened, thrown,
                 earlier, xvars, rvars, ovars, gvars>>

\* chunkDocument throws (the text splitter failed).
ChunkDocumentThrows ==
  /\ pc = "chunkDocument"
  /\ \E split \in ServiceSplits :
       LET r == chunkDocument(documentLength, split)
       IN /\ ~r.ok
          /\ cLength' = documentLength
          /\ cSplit' = split
          /\ cOutcome' = r
          /\ calls' = Append(calls, OnError(TerminalError(r.error)))
  /\ pc' = Caught(pc)
  /\ UNCHANGED <<documentLength, parser, mergedHierarchy, mergedMetadata, rawStreamBuffer,
                 totalChunks, chunkIndex, chunkParser, stream, chunkCount, opened, thrown,
                 chunks, earlier, xvars, rvars, ovars, gvars>>

\* this.llm.stream(messages) returns a stream.
StreamOpens ==
  /\ pc \in {"singleStream", "chunkStream"}
  /\ stream' \in IF pc = "singleStream" THEN SingleStreams ELSE ModelStreams
  /\ opened' = opened + 1
  /\ pc' = IF pc = "singleStream" THEN "singleIterate" ELSE "chunkIterate"
  /\ chunkParser' = ParserInitState
  /\ chunkCount' = 0
  /\ UNCHANGED <<documentLength, parser, mergedHierarchy, mergedMetadata, rawStreamBuffer,
                 totalChunks, chunkIndex, calls, thrown,
                 chunks, earlier, xvars, rvars, cvars, ovars, gvars>>

\* this.llm.stream(messages) throws.
StreamOpenThrows ==
  /\ pc \in {"singleStream", "chunkStream"}
  /\ thrown' = opened
  /\ calls' = Append(calls, OnError("model"))
  /\ pc' = Caught(pc)
  /\ UNCHANGED <<documentLength, parser, mergedHierarchy, mergedMetadata, rawStreamBuffer,
                 totalChunks, chunkIndex, chunkParser, stream, chunkCount, opened,
                 chunks, earlier, xvars, rvars, cvars, ovars, gvars>>

\* The stream yields a fragment: the body of the for await of
\* processSingleDocument.
SingleStreamYields ==
  /\ pc = "singleIterate"
  /\ Len(stream) > 0
  /\ LET fragment == stream[1]
         r == Call("ParserProcessChunk", <<parser, fragment.content, 0>>)
         st == Call("ForwardParsedChunks", <<r.results,
                 [metadata |-> mergedMetadata, hierarchy |-> mergedHierarchy,
                  calls |-> calls, threw |-> FALSE]>>)
     IN IF fragment.isString
        THEN /\ rawStreamBuffer' = rawStreamBuffer \o fragment.content
             /\ parser' = r.state
             /\ mergedMetadata' = st.metadata
             /\ mergedHierarchy' = st.hierarchy
             /\ calls' = Append(st.calls, OnProgress(SingleProgress(chunkCount + 1), 1))
        ELSE UNCHANGED <<rawStreamBuffer, parser, mergedMetadata, mergedHierarchy, calls>>
  /\ chunkCount' = chunkCount + 1
  /\ stream' = Tail(stream)
  /\ UNCHANGED <<pc, documentLength, totalChunks, chunkIndex, chunkParser, opened, thrown,
                 chunks, earlier, xvars, rvars, cvars, ovars, gvars>>

\* The stream yields a fragment: the body of the for await of processChunk.
ChunkStreamYields ==
  /\ pc = "chunkIterate"
  /\ Len(stream) > 0
  /\ LET fragment == stream[1]
         chunk == chunks[chunkIndex + 1]
         r == Call("ParserProcessChunk", <<chunkParser, fragment.content, chunk.index>>)
         st == Call("MergeParsedChunks", <<r.results,
                 [metadata |-> mergedMetadata, hierarchy |-> mergedHierarchy,
                  calls |-> calls, threw |-> FALSE],
                 chunk.index, chunk.totalChunks>>)
     IN IF fragment.isString
        THEN /\ chunkParser' = r.state
             /\ mergedMetadata' = st.metadata
             /\ mergedHierarchy' = st.hierarchy
             /\ calls' = IF st.threw THEN Append(st.calls, OnError("TypeError"))
                         ELSE st.calls
             /\ pc' = IF st.threw THEN Caught(pc) ELSE pc
        ELSE UNCHANGED <<chunkParser, mergedMetadata, mergedHierarchy, calls, pc>>
  /\ stream' = Tail(stream)
  /\ UNCHANGED <<documentLength, parser, rawStreamBuffer, totalChunks, chunkIndex,
                 chunkCount, opened, thrown,
                 chunks, earlier, xvars, rvars, cvars, ovars, gvars>>

\* The iteration of the stream throws.
StreamThrows ==
  /\ pc \in {"singleIterate", "chunkIterate"}
  /\ thrown' = opened
  /\ calls' = Append(calls, OnError("model"))
  /\ pc' = Caught(pc)
  /\ UNCHANGED <<documentLength, parser, mergedHierarchy, mergedMetadata, rawStreamBuffer,
                 totalChunks, chunkIndex, chunkParser, stream, chunkCount, opened,
                 chunks, earlier, xvars, rvars, cvars, ovars, gvars>>

\* The stream of processSingleDocument ends: finalizeMergedResults.
SingleStreamEnds ==
  /\ pc = "singleIterate"
  /\ StreamEnded(stream)
  /\ calls' = calls \o finalizeMergedResults
  /\ pc' = "done"
  /\ UNCHANGED <<documentLength, parser, mergedHierarchy, mergedMetadata, rawStreamBuffer,
                 totalChunks, chunkIndex, chunkParser, stream, chunkCount, opened, thrown,
                 chunks, earlier, xvars, rvars, cvars, ovars, gvars>>

\* The stream of a chunk ends: chunk_complete, then the next chunk or
\* finalizeMergedResults.
ChunkStreamEnds ==
  /\ pc = "chunkIterate"
  /\ StreamEnded(stream)
  /\ LET done == Append(calls,
                   OnChunk("chunk_complete",
                           JObj(<< <<W_chunkIndex, JNum(Numeral(chunkIndex))>>,
                                   <<W_totalChunks, JNum(Numeral(totalChunks))>> >>),
                           chunkIndex, totalChunks))
     IN IF chunkIndex + 1 < totalChunks
        THEN /\ chunkIndex' = chunkIndex + 1
             /\ calls' = Append(done, BaseProgress(chunkIndex + 1, totalChunks))
             /\ pc' = "chunkStream"
        ELSE /\ chunkIndex' = chunkIndex + 1
             /\ calls' = done \o finalizeMergedResults
             /\ pc' = "done"
  /\ UNCHANGED <<documentLength, parser, mergedHierarchy, mergedMetadata, rawStreamBuffer,
                 totalChunks, chunkParser, stream, chunkCount, opened, thrown,
                 chunks, earlier, xvars, rvars, cvars, ovars, gvars>>

Next ==
  \/ StreamDocumentParsing
  \/ ChunkDocumentReturns
  \/ ChunkDocumentThrows
  \/ StreamOpens
  \/ StreamOpenThrows
  \/ SingleStreamYields
  \/ ChunkStreamYields
  \/ StreamThrows
  \/ SingleStreamEnds
  \/ ChunkStreamEnds

Spec == SInit /\ [][Next]_vars

\* ------------------------------------------------------------------------
\* Two invocations of streamDocumentParsing on one service
\* ------------------------------------------------------------------------

\* DocumentProcessor holds one EnhancedStreamingService and every
\* processDocument calls streamDocumentParsing on it; an invocation is
\* suspended at each await (the opening of the stream, each fragment), and
\* another invocation may run meanwhile.  parser, mergedHierarchy,
\* mergedMetadata and rawStreamBuffer are fields of the service; stream,
\* chunkCount and the callbacks belong to the invocation.  The documents are
\* below the token limit (single-document mode).  whole is the stream as it
\* was opened, kept to state what the invocation consumed.

OverlapStreams == {StreamNoMetadata, StreamSecond, StreamEmpty}

OInit ==
  /\ OIdle
  /\ SIdle
  /\ XIdle
  /\ RIdle
  /\ CIdle
  /\ GIdle

\* streamDocumentParsing up to the await of this.llm.stream.
OStart(i) ==
  /\ inv[i].pc \in {"idle", "done"}
  /\ parser' = ParserInitState
  /\ mergedHierarchy' = FreshHierarchy(mergedHierarchy)
  /\ mergedMetadata' = JNull
  /\ rawStreamBuffer' = <<>>
  /\ inv' = [inv EXCEPT ![i] =
               [pc |-> "singleStream", whole |-> <<>>, stream |-> <<>>,
                calls |-> <<OnProgress(5, 1), OnProgress(10, 1), OnProgress(15, 1)>>,
                chunkCount |-> 0]]
  /\ UNCHANGED <<pc, documentLength, totalChunks, chunkIndex, chunkParser, stream,
                 calls, chunkCount, opened, thrown, chunks, earlier, xvars, rvars, cvars, gvars>>

\* this.llm.stream(messages) returns a stream.
OStreamOpens(i) ==
  /\ inv[i].pc = "singleStream"
  /\ \E s \in OverlapStreams :
       inv' = [inv EXCEPT ![i].pc = "singleIterate", ![i].whole = s, ![i].stream = s]
  /\ UNCHANGED <<svars, xvars, rvars, cvars, gvars>>

\* The stream yields a fragment: the body of the for await of
\* processSingleDocument, on the fields of the service.
OStreamYields(i) ==
  /\ inv[i].pc = "singleIterate"
  /\ ~StreamEnded(inv[i].stream)
  /\ LET fragment == inv[i].stream[1]
         r == Call("ParserProcessChunk", <<parser, fragment.content, 0>>)
         st == Call("ForwardParsedChunks", <<r.results,
                 [metadata |-> mergedMetadata, hierarchy |-> mergedHierarchy,
                  calls |-> inv[i].calls, threw |-> FALSE]>>)
         count == inv[i].chunkCount + 1
     IN IF fragment.isString
        THEN /\ rawStreamBuffer' = rawStreamBuffer \o fragment.content
             /\ parser' = r.state
             /\ mergedMetadata' = st.metadata
             /\ mergedHierarchy' = st.hierarchy
             /\ inv' = [inv EXCEPT ![i].stream = Tail(@), ![i].chunkCount = count,
                          ![i].calls = Append(st.calls, OnProgress(Min(90, 15 + count * 2), 1))]
        ELSE /\ inv' = [inv EXCEPT ![i].stream = Tail(@), ![i].chunkCount = count]
             /\ UNCHANGED <<rawStreamBuffer, parser, mergedMetadata, mergedHierarchy>>
  /\ UNCHANGED <<pc, documentLength, totalChunks, chunkIndex, chunkParser, stream,
                 calls, chunkCount, opened, thrown, chunks, earlier, xvars, rvars, cvars, gvars>>

\* The model client throws, opening the stream or iterating it.
OStreamThrows(i) ==
  /\ inv[i].pc \in {"singleStream", "singleIterate"}
  /\ inv' = [inv EXCEPT ![i].pc = Caught(@), ![i].calls = Append(@, OnError("model"))]
  /\ UNCHANGED <<svars, xvars, rvars, cvars, gvars>>

\* The stream ends: finalizeMergedResults on the fields of the service.
OStreamEnds(i) ==
  /\ inv[i].pc = "singleIterate"
  /\ StreamEnded(inv[i].stream)
  /\ inv' = [inv EXCEPT ![i].pc = "done", ![i].calls = @ \o finalizeMergedResults]
  /\ UNCHANGED <<svars, xvars, rvars, cvars, gvars>>

ONext ==
  \E i \in Invocations :
    \/ OStart(i)
    \/ OStreamOpens(i)
    \/ OStreamYields(i)
    \/ OStreamThrows(i)
    \/ OStreamEnds(i)

SpecOverlap == OInit /\ [][ONext]_vars

\* ------------------------------------------------------------------------
\* EnhancedStreamingService: properties
\* ------------------------------------------------------------------------

\* The positions in calls of the calls of one callback.
CallsOf(cb) == {k \in 1..Len(calls) : calls[k].cb = cb}
TerminalCalls == CallsOf("onComplete") \cup CallsOf("onError")

\* The metadata events forwarded by this invocation.
Proposals == {k \in CallsOf("onChunk") : calls[k].type = "metadata"}

\* C1: an invocation of streamDocumentParsing calls no terminal callback
\* (onComplete, onError) before it ends, and when it has ended it has called
\* exactly one of them, exactly once: in single-document and in chunked mode,
\* whether chunkDocument, the opening of a stream, the iteration of a stream
\* or a merge threw or nothing did.
C1_OneTerminalCallback ==
  /\ Cardinality(TerminalCalls) <= 1
  /\ pc = "done" => Cardinality(TerminalCalls) = 1
  /\ pc \notin {"idle", "done"} => TerminalCalls = {}

\* A chunked invocation that processed both its chunks and ended with
\* onComplete.
C1_Witness ==
  /\ pc = "done"
  /\ totalChunks = MaxChunks
  /\ opened = MaxChunks
  /\ Cardinality(CallsOf("onComplete")) = 1
  /\ \E k \in CallsOf("onChunk") : calls[k].type = "node"

\* C6: once the model client has thrown (opening a stream or iterating it),
\* the invocation has ended, no stream has been opened since, onComplete has
\* not been called, and the one terminal call is an onError, the last call of
\* the invocation, which carries neither the merged hierarchy nor the merged
\* metadata.
C6_ModelFailureEnds ==
  thrown >= 0 =>
    /\ pc = "done"
    /\ opened = thrown
    /\ CallsOf("onComplete") = {}
    /\ CallsOf("onError") = {Len(calls)}
    /\ calls[Len(calls)].data = UNDEF

\* The model client throws during the first of two chunks, after metadata and
\* a node of that chunk have been merged.
C6_Witness ==
  /\ thrown = 1
  /\ totalChunks = MaxChunks
  /\ chunkIndex = 0
  /\ Len(mergedHierarchy) > 0
  /\ Truthy(mergedMetadata)

\* C10: the merged metadata is the data of the first metadata event forwarded
\* by the invocation (null before any), whatever later events propose; the
\* payload of onComplete carries it, or the placeholder metadata if there was
\* none.
C10_FirstMetadataWins ==
  pc # "idle" =>
    /\ mergedMetadata = IF Proposals = {} THEN JNull ELSE calls[SetMin(Proposals)].data
    /\ \A k \in CallsOf("onComplete") :
         Get(calls[k].data, W_metadata) =
           IF Proposals = {} THEN PlaceholderMetadata ELSE calls[SetMin(Proposals)].data

\* A chunked invocation has completed after both its chunks proposed
\* metadata, and the two proposals differ.
C10_Witness ==
  /\ CallsOf("onComplete") # {}
  /\ \E j \in Proposals, k \in Proposals :
       /\ calls[j].chunkIndex = 0
       /\ calls[k].chunkIndex = 1
       /\ calls[j].data # calls[k].data

\* The merge rule, stated as a grouping by id and not as the loop of the
\* code.  An incoming node goes into the first node of the list that has its
\* id; if there is none, the first incoming node with that id is appended and
\* the later ones go into it.
IdOf(node) == Get(node, W_id)
WithId(list, id) == {k \in 1..Len(list) : StrictEquals(IdOf(list[k]), id)}
AppendedOf(existing, incoming) ==
  {k \in 1..Len(incoming) :
     /\ WithId(existing, IdOf(incoming[k])) = {}
     /\ \A j \in 1..(k - 1) : ~StrictEquals(IdOf(incoming[j]), IdOf(incoming[k]))}

\* The position in the merged list of the node that incoming[k] goes into.
SlotOf(existing, incoming, k) ==
  LET id == IdOf(incoming[k])
      first == SetMin({j \in 1..k : j = k \/ StrictEquals(IdOf(incoming[j]), id)})
  IN IF WithId(existing, id) # {} THEN SetMin(WithId(existing, id))
     ELSE Len(existing)
            + Cardinality({a \in AppendedOf(existing, incoming) : a <= first})

\* The elements of list at the positions in S, in the order of the list.
Pick(list, S) ==
  LET at == [r \in 1..Cardinality(S) |->
               CHOOSE k \in S : Cardinality({j \in S : j < k}) = r - 1]
  IN [r \in 1..Cardinality(S) |-> list[at[r]]]

RECURSIVE Flatten(_)
Flatten(seqs) == IF Len(seqs) = 0 THEN <<>> ELSE seqs[1] \o Flatten(Tail(seqs))

KeysOf(o) == {o.v[k][1] : k \in 1..Len(o.v)}

RECURSIVE MergedAs(_, _, _)

\* merged is base with the nodes of into merged into it, in order: the texts
\* joined by single spaces, the references concatenated, the children merged
\* by the same rule, every other property that of base.
NodeMergedAs(base, into, merged) ==
  IF Len(into) = 0 THEN merged = base
  ELSE /\ merged.t = "obj"
       /\ KeysOf(merged) = KeysOf(base) \cup {W_text, W_references, W_children}
       /\ \A key \in KeysOf(base) \ {W_text, W_references, W_children} :
            Get(merged, key) = Get(base, key)
       /\ Get(merged, W_text) =
            JStr(ToText(Get(base, W_text))
                   \o Flatten([k \in 1..Len(into) |-> <<" ">> \o ToText(Get(into[k], W_text))]))
       /\ Get(merged, W_references) =
            JArr(SpreadItems(Get(base, W_references))
                   \o Flatten([k \in 1..Len(into) |-> SpreadItems(Get(into[k], W_references))]))
       /\ Get(merged, W_children).t = "arr"
       /\ MergedAs(SpreadItems(Get(base, W_children)),
                   Flatten([k \in 1..Len(into) |-> Get(into[k], W_children).v]),
                   Get(merged, W_children).v)

\* merged is the list existing with the nodes of incoming merged into it.
MergedAs(existing, incoming, merged) ==
  LET appended == AppendedOf(existing, incoming)
      bases == existing \o Pick(incoming, appended)
  IN /\ Len(merged) = Len(bases)
     /\ \A p \in 1..Len(bases) :
          NodeMergedAs(bases[p],
                       Pick(incoming, {k \in 1..Len(incoming) \ appended :
                                         SlotOf(existing, incoming, k) = p}),
                       merged[p])

\* The nodes that a step forwards to onChunk, in order.
NodesForwarded ==
  LET new == SubSeq(calls', Len(calls) + 1, Len(calls'))
      at == {k \in 1..Len(new) : new[k].cb = "onChunk" /\ new[k].type = "node"}
  IN [r \in 1..Cardinality(at) |-> Pick(new, at)[r].data]

\* C9: in chunked mode, a step that merges nodes into the merged hierarchy
\* (mergeHierarchyNode on each node forwarded) leaves, for a node whose id is
\* already there, exactly one node with that id, at the place of the existing
\* one: its text is the existing text, one space, the incoming text, its
\* references are the existing ones followed by the incoming ones, its
\* children are merged by the same rule (a child with a new id is appended),
\* and every other node is unchanged; a node with a new id is appended.
C9_MergeRule ==
  [][pc = "chunkIterate" =>
       /\ MergedAs(mergedHierarchy, NodesForwarded, mergedHierarchy')
       /\ \A k \in 1..Len(NodesForwarded) :
            Cardinality(WithId(mergedHierarchy', IdOf(NodesForwarded[k]))) = 1]_vars

\* The second chunk has sent node p again: the merged hierarchy has one node
\* p, with both texts, the references of both and the children of both.
C9_Witness ==
  /\ chunkIndex = 1
  /\ \E i \in 1..Len(mergedHierarchy) :
       /\ IdOf(mergedHierarchy[i]) = JStr(<<"p">>)
       /\ Get(mergedHierarchy[i], W_text) = JStr(<<"A", " ", "B">>)
       /\ Len(Get(mergedHierarchy[i], W_references).v) = 3
       /\ Len(Get(mergedHierarchy[i], W_children).v) = 3
       /\ Get(Get(mergedHierarchy[i], W_children).v[1], W_text) = JStr(<<"u", " ", "v">>)

\* The events of the invocation's chunks: the onChunk calls, in the order of
\* their delivery.
ChunkCompletes == {k \in CallsOf("onChunk") : calls[k].type = "chunk_complete"}

\* C11: in chunked mode the stream of a chunk is opened only when the stream
\* of the chunk before has yielded all its fragments (as many streams have
\* been opened as chunks were started); the events are delivered in the order
\* of the chunk indices, the chunk_complete of a chunk after every event of
\* that chunk and before every event of a later chunk; and the chunk_complete
\* events are one per finished chunk, for the chunks 0, 1, 2, ... in this
\* order.
C11_ChunksInSequence ==
  totalChunks > 0 =>
    /\ pc = "chunkStream" => stream = <<>> /\ opened = chunkIndex
    /\ pc = "chunkIterate" => opened = chunkIndex + 1
    /\ \A j \in CallsOf("onChunk"), k \in CallsOf("onChunk") :
         j < k => calls[j].chunkIndex <= calls[k].chunkIndex
    /\ \A j \in CallsOf("onChunk"), k \in ChunkCompletes :
         /\ calls[j].chunkIndex = calls[k].chunkIndex => j <= k
         /\ calls[j].chunkIndex > calls[k].chunkIndex => j > k
    /\ Cardinality(ChunkCompletes) = chunkIndex
    /\ \A i \in 0..(chunkIndex - 1) :
         \E k \in ChunkCompletes :
           /\ calls[k].chunkIndex = i
           /\ Cardinality({j \in ChunkCompletes : j < k}) = i

\* Three chunks were processed and each of them delivered a node before its
\* chunk_complete.
C11_Witness ==
  /\ totalChunks = MaxChunks
  /\ chunkIndex = MaxChunks
  /\ \A i \in 0..(MaxChunks - 1) :
       \E k \in CallsOf("onChunk") : calls[k].type = "node" /\ calls[k].chunkIndex = i

\* What the recovery parser makes of the buffer of the extractor of the chunk
\* whose stream ended last.
RecoveredFromChunk == Call("parseJSONWithRecovery", <<chunkParser.accumulatedJson>>)

\* The stream of a chunk has ended and the next chunk has not started, or the
\* last chunk has ended and finalization has run.
ChunkStreamHasEnded ==
  /\ totalChunks > 0
  /\ chunkIndex > 0
  /\ pc = "chunkStream" \/ (pc = "done" /\ CallsOf("onComplete") # {})

\* C12: when the stream of a chunk has ended and the extractor of the chunk
\* is not complete, what the recovery parser returns for the buffer of that
\* extractor has been merged before the next chunk starts or the result is
\* finalized: if it returns metadata, the invocation has metadata, and every
\* node it returns has its id in the merged hierarchy.
C12_AsStated ==
  (ChunkStreamHasEnded /\ ~chunkParser.isComplete) =>
    LET recovered == RecoveredFromChunk.v
        nodes == Get(recovered, W_hierarchy)
    IN /\ Truthy(Get(recovered, W_metadata)) => Truthy(mergedMetadata)
       /\ nodes.t = "arr" =>
            \A k \in 1..Len(nodes.v) :
              \E j \in 1..Len(mergedHierarchy) :
                Get(mergedHierarchy[j], W_id) = Get(nodes.v[k], W_id)

\* The nodes that this invocation has forwarded to onChunk, in order.
NodesOfInvocation ==
  LET at == {k \in CallsOf("onChunk") : calls[k].type = "node"}
  IN [r \in 1..Cardinality(at) |-> Pick(calls, at)[r].data]

\* C13: the payload of onComplete is an object with the two members metadata
\* and hierarchy.  Its metadata is the data of the first metadata event of
\* this invocation, or the placeholder object if the invocation had none.
\* Its hierarchy is the merged hierarchy, which is made of the nodes this
\* invocation forwarded and of nothing else: in single-document mode it is
\* the sequence of these nodes, in chunked mode it is these nodes merged by
\* id into an empty list; so no node of it comes from an earlier invocation.
C13_CompletePayload ==
  \A k \in CallsOf("onComplete") :
    LET payload == calls[k].data
        hierarchy == Get(payload, W_hierarchy)
    IN /\ payload.t = "obj"
       /\ Len(payload.v) = 2
       /\ KeysOf(payload) = {W_metadata, W_hierarchy}
       /\ Get(payload, W_metadata) =
            IF Proposals = {} THEN PlaceholderMetadata ELSE calls[SetMin(Proposals)].data
       /\ hierarchy = JArr(mergedHierarchy)
       /\ IF exceedsTokenLimit(documentLength)
          THEN MergedAs(<<>>, NodesOfInvocation, hierarchy.v)
          ELSE hierarchy.v = NodesOfInvocation
       /\ \A n \in 1..Len(hierarchy.v) :
            \E j \in 1..Len(NodesOfInvocation) :
              IdOf(hierarchy.v[n]) = IdOf(NodesOfInvocation[j])

\* An invocation has completed with a node and without metadata, after an
\* earlier invocation on the same service forwarded a node p that is not in
\* the payload.
C13_Witness ==
  /\ CallsOf("onComplete") # {}
  /\ JStr(<<"p">>) \in earlier
  /\ Proposals = {}
  /\ Len(mergedHierarchy) > 0
  /\ \A n \in 1..Len(mergedHierarchy) : IdOf(mergedHierarchy[n]) # JStr(<<"p">>)

\* The strategies of the recovery parser on the text of the call, each taken
\* by itself: whether the strategy succeeds (it returns a value), and the
\* value.
Strategy(j) ==
  CASE j = 1 -> Call("RecoveryStep1", <<rText>>)
    [] j = 2 -> Call("RecoveryStep2", <<rText>>)
    [] j = 3 -> Call("RecoveryStep3", <<rText>>)
    [] j = 4 -> Call("RecoveryStep4", <<rText>>)
    [] j = 5 -> Call("RecoveryStep5", <<rText>>)
    [] OTHER -> Call("RecoveryStep6", <<rText>>)
Succeeds(j) == Strategy(j).kind = "return"

\* The truncations of step 4 that parse: the places in the list of fractions.
TruncationsThatParse ==
  {i \in 1..Len(TruncationPercents) :
     Call("TruncationAttempt", <<Call("OuterSpan", <<rText>>), TruncationPercents[i]>>).kind
       = "return"}

\* C14: the value parseJSONWithRecovery returns is that of the first strategy
\* that succeeds, in the order direct extraction, fenced block, syntax
\* patching, progressive truncation, metadata skeleton, fallback: no strategy
\* before the one that returned succeeds on the text, and the value is what
\* that strategy gives.  Within progressive truncation the fractions go down
\* from 95 to 30 percent and the value is that of the largest fraction that
\* parses.  The fallback placeholder is returned only if the five strategies
\* before it all failed.
C14_FirstSuccessWins ==
  rOutcome # NoOutcome =>
    /\ Succeeds(rOutcome.step)
    /\ \A j \in 1..(rOutcome.step - 1) : ~Succeeds(j)
    /\ rOutcome.v = Strategy(rOutcome.step).v
    /\ \A i \in 1..(Len(TruncationPercents) - 1) :
         TruncationPercents[i] > TruncationPercents[i + 1]
    /\ TruncationPercents[1] = 95 /\ TruncationPercents[Len(TruncationPercents)] = 30
    /\ rOutcome.step = 4 =>
         /\ TruncationsThatParse # {}
         /\ rOutcome.v =
              Call("TruncationAttempt",
                   <<Call("OuterSpan", <<rText>>),
                     TruncationPercents[SetMin(TruncationsThatParse)]>>).v
    /\ rOutcome.v = Call("RecoveryStep6", <<rText>>).v =>
         \A j \in 1..5 : ~Succeeds(j)

\* A truncated answer: the first three strategies fail, the truncation to 95
\* percent fails too and a shorter one parses, and the metadata skeleton,
\* which is not tried, would have given another value.
C14_Witness ==
  /\ rOutcome # NoOutcome
  /\ rOutcome.step = 4
  /\ 1 \notin TruncationsThatParse
  /\ Succeeds(5)
  /\ Strategy(5).v # rOutcome.v

\* The fragments of its stream that invocation i has consumed.
Consumed(i) == SubSeq(inv[i].whole, 1, Len(inv[i].whole) - Len(inv[i].stream))

\* The text of the string fragments of a stream.
RECURSIVE TextOf(_)
TextOf(fragments) ==
  IF Len(fragments) = 0 THEN <<>>
  ELSE (IF fragments[1].isString THEN fragments[1].content ELSE <<>>)
         \o TextOf(Tail(fragments))

\* The events that an extractor in state st returns when it is fed the
\* fragments and nothing else.
RECURSIVE EventsAlone(_, _)
EventsAlone(st, fragments) ==
  IF Len(fragments) = 0 THEN <<>>
  ELSE IF ~fragments[1].isString THEN EventsAlone(st, Tail(fragments))
  ELSE LET r == Call("ParserProcessChunk", <<st, fragments[1].content, 0>>)
       IN [k \in 1..Len(r.results) |-> <<r.results[k].type, r.results[k].data>>]
            \o EventsAlone(r.state, Tail(fragments))

\* The events that invocation i has delivered to onChunk.
EventsDelivered(i) ==
  LET cs == inv[i].calls
      at == {k \in 1..Len(cs) : cs[k].cb = "onChunk"}
  IN [r \in 1..Cardinality(at) |-> <<Pick(cs, at)[r].type, Pick(cs, at)[r].data>>]

\* C15: whatever the interleaving of the invocations on one service, the
\* extractor has been fed, since its last reset, the fragments of one model
\* stream only (its buffer is the text one invocation has consumed), and the
\* events an invocation delivers are those of its own stream fed to an
\* extractor that starts empty: no text and no result of another stream
\* influences them.
C15_AsStated ==
  /\ \E i \in Invocations : parser.accumulatedJson = TextOf(Consumed(i))
  /\ \A i \in Invocations :
       EventsDelivered(i) = EventsAlone(ParserInitState, Consumed(i))

\* Nodes to merge: a, b and e, and an object n that has an id and none of
\* the other fields of a node.
MergePool ==
  {Call("JSONParse", <<NodeA>>).v, Call("JSONParse", <<NodeB>>).v,
   Call("JSONParse", <<NodeE>>).v, Call("JSONParse", <<NotANode>>).v}

\* The orders in which the nodes of the set S can be merged.
OrdersOf(S) ==
  {f \in [1..Cardinality(S) -> S] : \A j, k \in 1..Cardinality(S) : f[j] = f[k] => j = k}

\* mergeHierarchyNode on each node of incoming, in order.
RECURSIVE MergeAll(_, _)
MergeAll(hierarchy, incoming) ==
  IF Len(incoming) = 0 THEN MergeOk(hierarchy)
  ELSE LET m == Call("mergeHierarchyNode", <<hierarchy, incoming[1]>>)
       IN IF m.ok THEN MergeAll(m.v, Tail(incoming)) ELSE MergeThrows

\* The elements of a list.
ElementsOf(list) == {list[k] : k \in 1..Len(list)}

\* The ids of the nodes of the set S are pairwise distinct and none of them
\* is the id of a node of the list.
DisjointIds(list, S) ==
  /\ \A m \in S, n \in S : IdOf(m) = IdOf(n) => m = n
  /\ \A n \in S : WithId(list, IdOf(n)) = {}

\* C16: merging nodes whose ids are pairwise distinct and not among the ids
\* already merged gives, in every order, the nodes already merged followed by
\* the new nodes, each of them stored as it came: the set of top-level nodes
\* is the union, whatever the order, nothing is lost and nothing is
\* combined.  It holds of the merged hierarchy of every state of a chunked
\* invocation with any nodes of the pool, and of the invocation itself: if
\* the nodes it forwarded have pairwise distinct ids, the merged hierarchy is
\* made of exactly these nodes.
C16_DisjointMergeIsUnion ==
  exceedsTokenLimit(documentLength) =>
    /\ \A S \in SUBSET MergePool :
         DisjointIds(mergedHierarchy, S) =>
           \A order \in OrdersOf(S) :
             LET m == MergeAll(mergedHierarchy, order)
             IN /\ m.ok
                /\ Len(m.v) = Len(mergedHierarchy) + Cardinality(S)
                /\ SubSeq(m.v, 1, Len(mergedHierarchy)) = mergedHierarchy
                /\ ElementsOf(m.v) = ElementsOf(mergedHierarchy) \cup S
    /\ (pc \in {"chunkStream", "done"}
          /\ DisjointIds(<<>>, ElementsOf(NodesOfInvocation))
          /\ Len(NodesOfInvocation) = Cardinality(ElementsOf(NodesOfInvocation))) =>
         /\ ElementsOf(mergedHierarchy) = ElementsOf(NodesOfInvocation)
         /\ Len(mergedHierarchy) = Len(NodesOfInvocation)

\* Two chunks have sent nodes with different ids, b and then p: the merged
\* hierarchy holds both as they came, and the nodes a and e of the pool can
\* still be merged in either order.
C16_Witness ==
  /\ exceedsTokenLimit(documentLength)
  /\ chunkIndex = 2
  /\ Len(mergedHierarchy) = 2
  /\ IdOf(mergedHierarchy[1]) = JStr(<<"b">>)
  /\ IdOf(mergedHierarchy[2]) = JStr(<<"p">>)
  /\ mergedHierarchy = NodesOfInvocation
  /\ Cardinality({S \in SUBSET MergePool : DisjointIds(mergedHierarchy, S)}) = 8

\* C17: a processChunk call on an extractor that is complete leaves it
\* complete, whatever text it appends; the extractor goes from complete to
\* not complete only by resetState, which leaves it in its initial, empty
\* state.
C17_CompleteIsOneWay ==
  [][/\ (xp.isComplete /\ Len(xLog') = Len(xLog) + 1) => xp'.isComplete
     /\ (xp.isComplete /\ ~xp'.isComplete) => (xLog' = <<>> /\ xp' = ParserInitState)]_vars

\* The extractor is complete and a later call has appended text after which
\* the buffer is no complete document any more.
C17_Witness ==
  /\ xp.isComplete
  /\ Len(xLog) >= 2
  /\ \E k \in 1..(Len(xLog) - 1) : Has(xLog[k].results, "complete")
  /\ ~Call("isParsingComplete", <<xp.accumulatedJson>>)

\* C18: when the text splitter throws inside chunkDocument, chunkDocument
\* fails with an Error whose message is that of the cause after the words
\* Failed to chunk document (Unknown error if what was thrown is no Error);
\* the invocation has then ended: it has opened no model stream, has
\* delivered no event to onChunk, has not called onComplete, and its last and
\* only terminal call is onError with that Error; chunkDocument is not called
\* again.
C18_SplitterFailure ==
  cSplit.throws =>
    /\ ~cOutcome.ok
    /\ cOutcome.error.isError
    /\ cOutcome.error.message = T_FailedToChunk \o CauseMessage(cSplit.cause)
    /\ pc = "done"
    /\ opened = 0
    /\ stream = <<>>
    /\ CallsOf("onChunk") = {}
    /\ CallsOf("onComplete") = {}
    /\ CallsOf("onError") = {Len(calls)}
    /\ calls[Len(calls)].type = cOutcome.error

\* The splitter threw an Error with the message boom and onError was called
\* with Failed to chunk document: boom.
C18_Witness ==
  /\ cSplit.throws
  /\ cSplit.cause = ErrorOf(<<"b", "o", "o", "m">>)
  /\ CallsOf("onError") # {}
  /\ calls[Len(calls)].type.message = T_FailedToChunk \o <<"b", "o", "o", "m">>

\* The estimate of the size of the text, its length divided by 4 and rounded
\* up, is greater than maxTokens: the length is greater than 4 * maxTokens.
EstimateAboveLimit == documentLength > CharsPerToken * MaxTokens

\* C20: an invocation runs in chunked mode (it calls chunkDocument and
\* processes what it returns) if the estimate of the size of its text is
\* strictly greater than maxTokens, and in single-document mode otherwise:
\* then chunkDocument is not called, no event carries a chunk index, and the
\* invocation opens one model stream for the whole text, however long the
\* text is compared with the chunk size of the splitter.
C20_ModeBySize ==
  pc # "idle" =>
    /\ EstimateAboveLimit =>
         /\ pc \in {"chunkDocument", "chunkStream", "chunkIterate", "done"}
         /\ pc # "chunkDocument" => cOutcome # NoChunks
         /\ \A k \in CallsOf("onChunk") : calls[k].chunkIndex >= 0
    /\ ~EstimateAboveLimit =>
         /\ pc \in {"singleStream", "singleIterate", "done"}
         /\ cOutcome = NoChunks
         /\ chunks = <<>> /\ totalChunks = 0
         /\ opened <= 1
         /\ pc = "singleIterate" => opened = 1
         /\ CallsOf("onComplete") # {} => opened = 1
         /\ \A k \in CallsOf("onChunk") : calls[k].chunkIndex = -1

\* A text of exactly 4 * maxTokens characters, many times the chunk size, has
\* been processed in single-document mode with one stream.
C20_Witness ==
  /\ documentLength = CharsPerToken * MaxTokens
  /\ documentLength > ChunkSize
  /\ pc = "done"
  /\ opened = 1
  /\ CallsOf("onComplete") # {}
  /\ \E k \in CallsOf("onChunk") : calls[k].type = "node"

\* The place of the k-th object of a region: the positions of its opening
\* brace and of its matching closing brace.
RECURSIVE OpensAt(_, _)
OpensAt(elements, k) ==
  IF k = 1 THEN 1 ELSE OpensAt(elements, k - 1) + Len(elements[k - 1]) + 1
ElementSpans(elements) ==
  [k \in 1..Len(elements) |->
     <<OpensAt(elements, k), OpensAt(elements, k) + Len(elements[k]) - 1>>]

\* The objects of a region that are nodes, parsed, in order.
NodesAmong(elements) ==
  LET parsed == [k \in 1..Len(elements) |-> Call("JSONParse", <<elements[k]>>).v]
  IN Pick(parsed, {k \in 1..Len(elements) : isValidHierarchyNode(parsed[k])})

\* C21: for a hierarchy region made of well-formed objects (plain, with a
\* nested child, with braces, an escaped quote and an escaped backslash
\* inside a string value, with unbalanced braces inside a string value), the
\* candidates of the scan are exactly the top-level objects, each from its
\* opening brace to its matching closing brace: no nested child and no brace
\* inside a string starts or ends a candidate, the depth ends at zero, and
\* the objects returned are the top-level objects that are nodes, in order.
C21_ElementsCaptured ==
  gScan.scanned =>
    \A elements \in ElementLists :
      gText = Region(elements) =>
        /\ gScan.spans = ElementSpans(elements)
        /\ \A k \in 1..Len(gScan.spans) :
             SubSeq(gText, gScan.spans[k][1], gScan.spans[k][2]) = elements[k]
        /\ gScan.objects = NodesAmong(elements)
        /\ gScan.braceCount = 0
        /\ gScan.minBrace = 0

\* A region of two objects has been scanned: a node with a nested child, and
\* a node whose text holds braces, an escaped quote and an escaped backslash.
C21_Witness ==
  /\ gScan.scanned
  /\ gText = Region(<<NodeAC, NodeE>>)
  /\ Len(gScan.spans) = 2
  /\ Len(gScan.objects) = 2

\* The document delivered so far, when it is one complete JSON text.
DeliveredDocument == Call("JSONParse", <<Trim(Delivered)>>)

\* C22: when the buffer holds a complete top-level metadata object (here:
\* the text delivered is a complete document with a metadata object), the
\* calls so far have emitted a Metadata event that carries this whole object,
\* also when a string of the metadata holds a brace or the metadata holds a
\* nested object.
C22_AsStated ==
  (/\ Len(xLog) > 0
   /\ DeliveredDocument.ok
   /\ DeliveredDocument.v.t = "obj"
   /\ Get(DeliveredDocument.v, W_metadata).t = "obj") =>
    \E k \in 1..Len(ResultsOf(xLog)) :
      /\ ResultsOf(xLog)[k].type = "metadata"
      /\ ResultsOf(xLog)[k].data = Get(DeliveredDocument.v, W_metadata)

\* The metadata region of the text of the call, "metadata": {...} up to the
\* first closing brace, and its object when the region is one.
MetadataRegion == Call("MetadataRegexMatch", <<rText>>)
LocatedMetadata ==
  Call("JSONParse", <<SubSeq(rText, MetadataRegion.open, MetadataRegion.close)>>)

\* C23: when strategies 1 to 4 fail on a text that has a metadata region
\* holding an object and a hierarchy marker, the value returned is the
\* skeleton of strategy 5: its metadata is the located object, its hierarchy
\* is empty and it carries the mark of a partial parse; it is not the
\* placeholder of total failure.
C23_AsStated ==
  (/\ rOutcome # NoOutcome
   /\ \A j \in 1..4 : ~Succeeds(j)
   /\ MetadataRegion.found
   /\ Call("FirstKeyOpen", <<rText, 1, K_hierarchy, "[">>).at > 0
   /\ LocatedMetadata.ok) =>
    /\ rOutcome.step = 5
    /\ Get(rOutcome.v, W_metadata) = LocatedMetadata.v
    /\ Get(rOutcome.v, W_hierarchy) = JArr(<<>>)
    /\ HasKey(rOutcome.v, W_parseError)
    /\ rOutcome.v # Call("RecoveryStep6", <<rText>>).v

\* C24: between two resets at most one processChunk call returns a Complete
\* event: once a call has found the buffer complete, no later call (with an
\* empty fragment, with white space) returns another.
C24_AsStated ==
  Cardinality({k \in 1..Len(xLog) : Has(xLog[k].results, "complete")}) <= 1

\* C25: whatever the text, the brace depth of the scan never goes below zero:
\* a closing brace outside every object leaves it at zero, and the child c of
\* a later node, which only occurs nested, is not among the objects
\* captured.
C25_AsStated ==
  gScan.scanned =>
    /\ gScan.minBrace >= 0
    /\ gScan.braceCount >= 0
    /\ \A k \in 1..Len(gScan.objects) : IdOf(gScan.objects[k]) # JStr(<<"c">>)

\* ------------------------------------------------------------------------
\* DocumentProcessor.processDocument and the processDocument above it
\* ------------------------------------------------------------------------

\* What DocumentProcessor.processDocument calls on its own callbacks.  A
\* ProcessingState has the progress num/den; the other callbacks keep the type
\* and the chunk numbers of what they pass on.
ProcessingState(stage, n, d) ==
  [ev |-> "onProgress", stage |-> stage, num |-> n, den |-> d, type |-> "",
   chunkIndex |-> -1, totalChunks |-> -1]
Passed(ev, c) ==
  [ev |-> ev, stage |-> "", num |-> 0, den |-> 1, type |-> c.type,
   chunkIndex |-> c.chunkIndex, totalChunks |-> c.totalChunks]

\* Math.min(90, 30 + progress * 0.6) of the progress n/d, as the fraction
\* (150 d + 3 n) / (5 d).
ParsingProgress(n, d) ==
  IF 150 * d + 3 * n > 90 * 5 * d THEN ProcessingState("parsing", 90, 1)
  ELSE ProcessingState("parsing", 150 * d + 3 * n, 5 * d)

\* streamingCallbacks: what one callback of the service becomes.
StreamingCallback(c) ==
  CASE c.cb = "onProgress" -> <<ParsingProgress(c.num, c.den)>>
    [] c.cb = "onChunk" -> <<Passed("onStreamingChunk", c)>>
    [] c.cb = "onComplete" -> <<ProcessingState("complete", 100, 1), Passed("onComplete", c)>>
    [] c.cb = "onError" -> <<Passed("onError", c)>>

RECURSIVE StreamingCallbacks(_)
StreamingCallbacks(cs) ==
  IF Len(cs) = 0 THEN <<>>
  ELSE StreamingCallback(cs[1]) \o StreamingCallbacks(Tail(cs))

\* The callbacks of one processDocument whose streamDocumentParsing made the
\* callbacks cs: the three stages before the service is called, then the
\* callbacks of the service as streamingCallbacks passes them on.
ProcessorCallbacks(cs) ==
  <<ProcessingState("uploading", 10, 1), ProcessingState("cleaning", 20, 1),
    ProcessingState("parsing", 30, 1)>> \o StreamingCallbacks(cs)

\* C26: when an invocation has ended with onComplete and without onError, the
\* last ProcessingState delivered is complete with progress 100, and after
\* the onComplete of the consumer no state is delivered that has the stage
\* parsing or a progress below 100.
C26_AsStated ==
  (pc = "done" /\ CallsOf("onComplete") # {} /\ CallsOf("onError") = {}) =>
    LET d == ProcessorCallbacks(calls)
        states == {k \in 1..Len(d) : d[k].ev = "onProgress"}
        completes == {k \in 1..Len(d) : d[k].ev = "onComplete"}
    IN /\ \A k \in states :
            (\A j \in states : j <= k) => d[k].stage = "complete" /\ d[k].num = 100 * d[k].den
       /\ \A k \in states : \A c \in completes :
            k > c => d[k].stage # "parsing" /\ d[k].num >= 100 * d[k].den

\* processDocument of the document service: the processingState that one
\* callback of the processor sets, if it sets one.  onProgress sets the state
\* it is given; the chunk_complete case of onStreamingChunk sets
\* 30 + ((chunkIndex + 1) / totalChunks) * 60 (the numbers of chunk.data, which
\* are those of the chunk); onError sets the stage error.
SetProcessingState(e) ==
  CASE e.ev = "onProgress" -> <<[stage |-> e.stage, num |-> e.num, den |-> e.den]>>
    [] e.ev = "onStreamingChunk" /\ e.type = "chunk_complete" ->
         <<[stage |-> "parsing", num |-> 30 * e.totalChunks + 60 * (e.chunkIndex + 1),
            den |-> e.totalChunks]>>
    [] e.ev = "onError" -> <<[stage |-> "error", num |-> 0, den |-> 1]>>
    [] OTHER -> <<>>

\* C29: in chunked mode the progress of processingState never decreases from
\* the start of the first chunk (the fourth onProgress of the service, after
\* 5, 10 and 15) until the terminal callback.
C29_AsStated ==
  (pc # "idle" /\ exceedsTokenLimit(documentLength)) =>
    LET d == ProcessorCallbacks(calls)
        start == Len(ProcessorCallbacks(<<>>)) + 4
        terminal == {k \in 1..Len(d) : d[k].ev \in {"onComplete", "onError"}}
        shown == {k \in start..Len(d) :
                    SetProcessingState(d[k]) # <<>> /\ \A t \in terminal : k < t}
    IN \A j, k \in shown :
         j < k => SetProcessingState(d[j])[1].num * SetProcessingState(d[k])[1].den
                    <= SetProcessingState(d[k])[1].num * SetProcessingState(d[j])[1].den

\* An invocation in chunked mode.
ChunkedMode == pc # "idle" /\ exceedsTokenLimit(documentLength)

\* The node events that calls holds.
NodeEvents == {k \in CallsOf("onChunk") : calls[k].type = "node"}

\* C27: in chunked mode no two top-level nodes of the merged hierarchy have
\* the same id, whatever node events the chunks gave, and no step of an
\* invocation makes the merged hierarchy shorter.
C27_DistinctAndGrowing ==
  /\ [](ChunkedMode =>
          \A j, k \in 1..Len(mergedHierarchy) :
            StrictEquals(IdOf(mergedHierarchy[j]), IdOf(mergedHierarchy[k])) => j = k)
  /\ [][(ChunkedMode /\ pc # "done") => Len(mergedHierarchy') >= Len(mergedHierarchy)]_vars

\* Two chunks have sent a node with the same id, and the merged hierarchy
\* has two nodes.
C27_Witness ==
  /\ ChunkedMode
  /\ Len(mergedHierarchy) = 2
  /\ \E j, k \in NodeEvents :
       /\ calls[j].chunkIndex < calls[k].chunkIndex
       /\ IdOf(calls[j].data) = IdOf(calls[k].data)
  /\ Cardinality(NodeEvents) > Len(mergedHierarchy)

\* An invocation in single-document mode.
SingleMode == pc # "idle" /\ ~exceedsTokenLimit(documentLength)

\* C28: in single-document mode the progress values never decrease; while
\* the stream is consumed none exceeds 90, and the i-th of them after 5, 10
\* and 15 is 15 + 2 c clamped at 90 for a fragment count c from i up to
\* the fragments consumed; and 100 is reported only when the stream has ended
\* and after onComplete.
C28_SingleProgress ==
  SingleMode =>
    LET P == CallsOf("onProgress")
        before == {k \in P : \A c \in CallsOf("onComplete") \cup CallsOf("onError") : k < c}
        nth(k) == Cardinality({j \in P : j <= k})
    IN /\ \A j, k \in P :
            j < k => calls[j].num * calls[k].den <= calls[k].num * calls[j].den
       /\ pc \in {"singleStream", "singleIterate"} =>
            /\ \A k \in P : calls[k].num <= 90 * calls[k].den
            /\ \A k \in P :
                 nth(k) > 3 =>
                   \E c \in (nth(k) - 3)..chunkCount :
                     calls[k].num = Min(90, 15 + 2 * c) /\ calls[k].den = 1
       /\ \A k \in P :
            calls[k].num >= 100 * calls[k].den =>
              /\ pc = "done"
              /\ Len(stream) = 0
              /\ \E c \in CallsOf("onComplete") : c < k

\* A stream of more fragments than the ceiling allows for has been consumed:
\* the progress stood at 90 for the last of them, and 100 follows onComplete.
C28_Witness ==
  /\ SingleMode
  /\ pc = "done"
  /\ 15 + 2 * chunkCount > 90
  /\ \E k \in CallsOf("onProgress") : calls[k].num = 90 /\ calls[k + 1].num = 90
  /\ \E c \in CallsOf("onComplete") : c + 1 = Len(calls) /\ calls[c + 1].num = 100

\* ------------------------------------------------------------------------
\* Exceptions during the extraction
\* ------------------------------------------------------------------------

\* The buffer after call k of the log.
BufferAfter(k) == SubSeq(xText, 1, xLog[k].after)

\* Call k ran extractMetadata (no call before it had returned a Metadata
\* event) and its JSON.parse threw.
MetadataThrewIn(k) ==
  /\ ~Has(ResultsOf(SubSeq(xLog, 1, k - 1)), "metadata")
  /\ MetadataParseThrows(BufferAfter(k))

\* The JSON.parse of isParsingComplete threw in call k.
CompleteThrewIn(k) == CompleteParseThrows(BufferAfter(k))

\* The Error events among results.
ErrorsOf(results) == {i \in 1..Len(results) : results[i].type = "error"}

\* C30 as stated: the buffer is the fragments so far, and a call during
\* whose extraction an exception was thrown returns exactly one Error event.
C30_AsStated ==
  /\ xp.accumulatedJson = Delivered
  /\ \A k \in 1..Len(xLog) :
       (MetadataThrewIn(k) \/ CompleteThrewIn(k)) =>
         Cardinality(ErrorsOf(xLog[k].results)) = 1

\* C30: after every call the buffer is the buffer before it followed by the
\* fragment; no call returns an Error event: what the JSON.parse of
\* extractMetadata or of isParsingComplete throws is caught there, and the
\* call only lacks the Metadata or the Complete event of that step.
C30_ExceptionsSwallowed ==
  /\ xp.accumulatedJson = Delivered
  /\ \A k \in 1..Len(xLog) :
       /\ ErrorsOf(xLog[k].results) = {}
       /\ MetadataThrewIn(k) => ~Has(xLog[k].results, "metadata")
       /\ CompleteThrewIn(k) => ~Has(xLog[k].results, "complete")

\* A call in which extractMetadata threw, a call in which isParsingComplete
\* threw, and a later call that returns a Node event.
C30_Witness ==
  /\ Len(Delivered) > 0
  /\ xp.accumulatedJson = Delivered
  /\ \E k, j \in 1..Len(xLog) : \E l \in 1..Len(xLog) :
       /\ MetadataThrewIn(k)
       /\ CompleteThrewIn(j)
       /\ k < l /\ j < l
       /\ Has(xLog[l].results, "node")

====
